---- MODULE Spec2Model ----
(***************************************************************************)
(* Selection and autoscroll engine of the spreadsheet component            *)
(* (hook useSpreadsheetSelection, src/app/components/Spreadsheet.tsx       *)
(* lines 909-1528, wired by the Spreadsheet component of                   *)
(* src/unnamed/part_001).                                                  *)
(*                                                                         *)
(* One action per event handler or animation-frame callback.  React state  *)
(* (selectedCell, selectionRange) and the mutable refs are the variables.  *)
(* Pixel quantities are integers; pointer positions are drawn from sample  *)
(* sets chosen so that the speed formula of the autoscroll step is exact.  *)
(***************************************************************************)
EXTENDS Integers, Sequences, FiniteSets, TLC

(* ------------------------------------------------------------------ *)
(* Grid geometry                                                      *)
(* ------------------------------------------------------------------ *)
\* props of the hook: number of rows / columns of the grid; the number of
\* rows is chosen when the hook is mounted and does not change afterwards
VARIABLE rowCount
GridRows == 2
TallGridRows == 3
columnCount == 2
\* module constants of the hook file
ROW_HEIGHT == 24
COLUMN_WIDTH == 100
HEADER_HEIGHT == 24
\* defaulted props of the hook
defaultRowHeight == 24
defaultColumnWidth == 100
\* bounding rectangle of the scroll container (DOM geometry): its corner in
\* the window, and how many pixels of the content do not fit in it
RectLeft == 116
RectTop == 40
ScrollRoomX == 50
ScrollRoomY == 18
\* offset of the sampled pointer position that lies inside the viewport
InsideX == 75
InsideY == 15
\* largest number of animation-frame callbacks pending at one time
MaxPending == 2
\* width of a container that shows only a part of the first column
NarrowWidth == 20

Min(a, b) == IF a < b THEN a ELSE b
Max(a, b) == IF a > b THEN a ELSE b

Rows == 0 .. (rowCount - 1)
Cols == 0 .. (columnCount - 1)

\* CellPosition | null and CellRange | null
NoCell == [row |-> -1, col |-> -1]
Cell(r, c) == [row |-> r, col |-> c]
NoRange == [start |-> NoCell, end |-> NoCell]
Range(s, e) == [start |-> s, end |-> e]

\* lastMousePositionRef.current: {x, y, rect} | null (rect is the fixed
\* bounding rectangle above)
NoPos == [set |-> FALSE, x |-> 0, y |-> 0]
Pos(px, py) == [set |-> TRUE, x |-> px, y |-> py]

\* rafRef.current: null, a handle whose callback is no longer pending, or
\* the handle (a positive integer) of a pending callback
RafNull == 0
RafStale == -1

VARIABLES
  selectedCell,          \* useState<CellPosition | null>
  selectionRange,        \* useState<CellRange | null>
  isDraggingRef,         \* useRef(false)
  headerDragTypeRef,     \* useRef<'row' | 'column' | null>
  isHeaderDragRef,       \* useRef(false)
  lastMousePositionRef,  \* useRef<{x, y, rect} | null>
  rafRef,                \* useRef<number | null>
  rafQueue,              \* callbacks handed to requestAnimationFrame, FIFO
  effectPending,         \* a re-render with a new handleKeyDown is scheduled
  scrollLeft,            \* container.scrollLeft
  scrollTop,             \* container.scrollTop
  gridRef,               \* gridRef.current is non-null
  rectWidth,             \* width of the container's bounding rectangle
  rectHeight,            \* height of the container's bounding rectangle
  mounted,               \* the window-listener effect is bound
  observers,             \* which of the optional observer props are passed
  notified,              \* observers invoked by the last step
  notifiedCell,          \* last argument of onActivePositionChange
  notifiedRange,         \* last argument of onSelectionChange
  isDragging,            \* useSpreadsheetScroll: prop of the last render
  boundIsDragging,       \* isDragging in the handleMouseMove bound to window
  scrollState,           \* useSpreadsheetScroll: useState<ScrollState>
  scrollStateUpdate,     \* argument of a setScrollState not yet rendered
  passivePending,        \* a commit whose passive effects have not run
  scrollLastMousePositionRef, \* useSpreadsheetScroll: lastMousePositionRef
  recomputed,            \* the last step called grid.recomputeGridSize()
  ev                     \* name of the handler that ran last (history)

vars == << selectedCell, selectionRange, isDraggingRef, headerDragTypeRef,
           isHeaderDragRef, lastMousePositionRef, rafRef, rafQueue,
           effectPending, scrollLeft, scrollTop, gridRef, rectWidth,
           rectHeight, rowCount,
           mounted, observers, notified, notifiedCell, notifiedRange,
           isDragging, boundIsDragging, scrollState, scrollStateUpdate,
           passivePending, scrollLastMousePositionRef, recomputed, ev >>

\* the state of the hook useSpreadsheetScroll (src/unnamed/part_002), which
\* the revision of useSpreadsheetSelection in
\* src/app/hooks/useSpreadsheetSelection.ts owns; the hook of
\* Spreadsheet.tsx has no such part
scrollHookVars ==
  << isDragging, boundIsDragging, scrollState, scrollStateUpdate,
     passivePending, scrollLastMousePositionRef >>

\* ScrollState of useSpreadsheetScroll (isScrolling is direction !== null).
\* idle is history: the pointer-move that computed the value was handled
\* while the host's isDraggingRef was false
NoScroll == [direction |-> "null", speed |-> 0, idle |-> FALSE]
\* no setScrollState is waiting for a render
NoUpdate == [direction |-> "none", speed |-> 0, idle |-> FALSE]

(* ------------------------------------------------------------------ *)
(* The renderer's scroll container                                    *)
(* ------------------------------------------------------------------ *)
contentWidth == columnCount * defaultColumnWidth
contentHeight == rowCount * defaultRowHeight
\* rect.width / rect.height (and clientWidth / clientHeight) of the container
ViewportWidth == rectWidth
ViewportHeight == rectHeight

\* the container keeps its offsets inside [0, content - client]
ContainerClampLeft(v) == Max(0, Min(contentWidth - ViewportWidth, v))
ContainerClampTop(v) == Max(0, Min(contentHeight - ViewportHeight, v))

(* ------------------------------------------------------------------ *)
(* requestAnimationFrame / cancelAnimationFrame                       *)
(* ------------------------------------------------------------------ *)
QueueIds(q) == { q[i].id : i \in 1 .. Len(q) }

\* the handle returned by requestAnimationFrame
FreshId(q) == CHOOSE i \in 1 .. (Len(q) + 1) : i \notin QueueIds(q)

ScrollFrame(id) ==
  [id |-> id, kind |-> "scroll", row |-> -1, col |-> -1, shift |-> FALSE,
   start |-> NoCell, beforeUp |-> FALSE]

KeyFrame(id, r, c, s, range) ==
  [id |-> id, kind |-> "key", row |-> r, col |-> c, shift |-> s,
   start |-> range.start, beforeUp |-> FALSE]

\* cancelAnimationFrame(handle)
CancelFrame(q, handle) == SelectSeq(q, LAMBDA f : f.id # handle)

\* value of rafRef.current once the callback of `handle' is not pending
Spent(handle) == IF handle = RafNull THEN RafNull ELSE RafStale

\* cleanup of the window-listener effect: if (rafRef.current)
\* cancelAnimationFrame(rafRef.current)
EffectCleanupQueue(q, handle) ==
  IF handle # RafNull THEN CancelFrame(q, handle) ELSE q

\* history: the callbacks that are still pending when a pointer-up or the
\* unmount has been handled were scheduled before it
MarkPending(q) == [i \in 1 .. Len(q) |-> [q[i] EXCEPT !.beforeUp = TRUE]]

\* the two optional observer props
Observers == { "onActivePositionChange", "onSelectionChange" }

\* state after the first render and its effects, for a grid of the given
\* number of rows, a container of the given width and height and a host
\* that passes the given observers; the notification effects have run once,
\* with null
InitGrid(rows, width, height, registered) ==
  /\ rowCount = rows
  /\ selectedCell = NoCell
  /\ selectionRange = NoRange
  /\ isDraggingRef = FALSE
  /\ headerDragTypeRef = "null"
  /\ isHeaderDragRef = FALSE
  /\ lastMousePositionRef = NoPos
  /\ rafRef = RafNull
  /\ rafQueue = << >>
  /\ effectPending = FALSE
  /\ scrollLeft = 0
  /\ scrollTop = 0
  /\ gridRef = TRUE
  /\ rectWidth = width
  /\ rectHeight = height
  /\ mounted = TRUE
  /\ observers = registered
  /\ notified = registered
  /\ notifiedCell = NoCell
  /\ notifiedRange = NoRange
  /\ isDragging = FALSE
  /\ boundIsDragging = FALSE
  /\ scrollState = NoScroll
  /\ scrollStateUpdate = NoUpdate
  /\ passivePending = FALSE
  /\ scrollLastMousePositionRef = NoPos
  /\ recomputed = FALSE
  /\ ev = "init"

\* the grid of GridRows rows
InitRect(width, height, registered) ==
  InitGrid(GridRows, width, height, registered)

\* a container that leaves ScrollRoomY pixels of the content below its
\* lower edge
InitWith(width, registered) ==
  InitRect(width, contentHeight - ScrollRoomY, registered)

Init == InitWith(contentWidth - ScrollRoomX, {})

(* ------------------------------------------------------------------ *)
(* Re-render after a state change made inside a React event handler:  *)
(* the render and the effect cleanup are flushed with the event.      *)
(* ------------------------------------------------------------------ *)
SyncCommit ==
  /\ rafQueue' = EffectCleanupQueue(rafQueue, rafRef)
  /\ rafRef' = Spent(rafRef)
  /\ effectPending' = FALSE

(* ------------------------------------------------------------------ *)
(* The notification effects: each runs after a commit in which its    *)
(* state was set (a scheduled re-render has set both)                 *)
(* ------------------------------------------------------------------ *)
\* faulty variant: the effect of selectionRange calls the observer of the
\* active cell, onSelectionChange is never invoked
DeliverActiveOnly(cellSet, rangeSet) ==
  /\ notified' =
       (IF cellSet \/ rangeSet \/ effectPending
        THEN { "onActivePositionChange" } ELSE {}) \cap observers
  /\ notifiedCell' =
       IF "onActivePositionChange" \in notified'
       THEN selectedCell' ELSE notifiedCell
  /\ UNCHANGED << observers, notifiedRange >>

Deliver(cellSet, rangeSet) ==
  /\ notified' =
       ((IF cellSet \/ effectPending
         THEN { "onActivePositionChange" } ELSE {})
        \cup (IF rangeSet \/ effectPending
              THEN { "onSelectionChange" } ELSE {})) \cap observers
  /\ notifiedCell' =
       IF "onActivePositionChange" \in notified'
       THEN selectedCell' ELSE notifiedCell
  /\ notifiedRange' =
       IF "onSelectionChange" \in notified'
       THEN selectionRange' ELSE notifiedRange
  /\ UNCHANGED observers

\* a step that commits nothing invokes no observer
NoNotification ==
  /\ notified' = {}
  /\ UNCHANGED << observers, notifiedCell, notifiedRange >>

(* ------------------------------------------------------------------ *)
(* handleMouseDown(row, col, shiftKey)                                *)
(* ------------------------------------------------------------------ *)
\* scroll-into-view of handleMouseDown: the offsets handed to
\* scrollToPosition, or the current ones when no call is made
MouseDownScrollTop(row) ==
  LET cellTop == row * ROW_HEIGHT
      cellBottom == (row + 1) * ROW_HEIGHT
  IN  IF cellTop < scrollTop + HEADER_HEIGHT THEN cellTop
      ELSE IF cellBottom > scrollTop + ViewportHeight
           THEN cellBottom - ViewportHeight
           ELSE scrollTop

MouseDownScrollLeft(col) ==
  LET cellLeft == col * COLUMN_WIDTH
      cellRight == (col + 1) * COLUMN_WIDTH
  IN  IF cellLeft < scrollLeft + COLUMN_WIDTH THEN cellLeft
      ELSE IF cellRight > scrollLeft + ViewportWidth
           THEN cellRight - ViewportWidth
           ELSE scrollLeft

\* faulty variant: the shift test is dropped, an existing active cell is always
\* the anchor
MouseDownRangeAlwaysExtends(row, col, shiftKey) ==
  IF selectedCell # NoCell
  THEN Range(selectedCell, Cell(row, col))
  ELSE Range(Cell(row, col), Cell(row, col))

\* argument of setSelectionRange in handleMouseDown
MouseDownRange(row, col, shiftKey) ==
  IF shiftKey /\ selectedCell # NoCell
  THEN Range(selectedCell, Cell(row, col))
  ELSE Range(Cell(row, col), Cell(row, col))

\* the part of handleMouseDown after the header-drag guard
MouseDownBody(row, col, shiftKey) ==
  /\ isDraggingRef' = TRUE
  /\ selectionRange' = MouseDownRange(row, col, shiftKey)
  /\ selectedCell' =
       IF shiftKey /\ selectedCell # NoCell THEN selectedCell
       ELSE Cell(row, col)
  /\ IF gridRef
     THEN /\ scrollTop' = ContainerClampTop(MouseDownScrollTop(row))
          /\ scrollLeft' = ContainerClampLeft(MouseDownScrollLeft(col))
     ELSE UNCHANGED << scrollLeft, scrollTop >>
  /\ SyncCommit
  /\ Deliver(~(shiftKey /\ selectedCell # NoCell), TRUE)
  /\ UNCHANGED << headerDragTypeRef, isHeaderDragRef, lastMousePositionRef,
                  gridRef, rectWidth, rectHeight,
                  rowCount, scrollHookVars, mounted >>

\* faulty variant: the guard on isHeaderDragRef is missing
handleMouseDownNoGuard(row, col, shiftKey) ==
  /\ mounted
  /\ ev' = "cellDown"
  /\ recomputed' = FALSE
  /\ MouseDownBody(row, col, shiftKey)

handleMouseDown(row, col, shiftKey) ==
  /\ mounted
  /\ ev' = "cellDown"
  /\ recomputed' = FALSE
  /\ IF isHeaderDragRef
     THEN /\ NoNotification
          /\ UNCHANGED << selectedCell, selectionRange, isDraggingRef,
                          headerDragTypeRef, isHeaderDragRef,
                          lastMousePositionRef, rafRef, rafQueue,
                          effectPending, scrollLeft, scrollTop, gridRef,
                          rectWidth, rectHeight,
                          rowCount, scrollHookVars, mounted >>
     ELSE MouseDownBody(row, col, shiftKey)

(* ------------------------------------------------------------------ *)
(* handleHeaderMouseDown(index, isRow, shiftKey)                      *)
(* ------------------------------------------------------------------ *)
HeaderRowScrollTop(index) ==
  LET rowTop == index * ROW_HEIGHT
      rowBottom == (index + 1) * ROW_HEIGHT
  IN  IF rowTop < scrollTop + HEADER_HEIGHT THEN rowTop - HEADER_HEIGHT
      ELSE IF rowBottom > scrollTop + ViewportHeight
           THEN rowBottom - ViewportHeight
           ELSE scrollTop

HeaderColumnScrollLeft(index) ==
  LET colLeft == index * COLUMN_WIDTH
      colRight == (index + 1) * COLUMN_WIDTH
  IN  IF colLeft < scrollLeft + COLUMN_WIDTH THEN colLeft - COLUMN_WIDTH
      ELSE IF colRight > scrollLeft + ViewportWidth
           THEN colRight - ViewportWidth
           ELSE scrollLeft

\* selection set by a pointer-down on row header `index'
HeaderRowRange(index, shiftKey) ==
  IF shiftKey /\ selectionRange # NoRange
  THEN Range(selectionRange.start, Cell(index, columnCount - 1))
  ELSE Range(Cell(index, 0), Cell(index, columnCount - 1))

\* faulty variant: row and column of the end cell are exchanged
HeaderColumnRangeTransposed(index, shiftKey) ==
  IF shiftKey /\ selectionRange # NoRange
  THEN Range(selectionRange.start, Cell(index, columnCount - 1))
  ELSE Range(Cell(index, 0), Cell(index, columnCount - 1))

\* selection set by a pointer-down on column header `index'
HeaderColumnRange(index, shiftKey) ==
  IF shiftKey /\ selectionRange # NoRange
  THEN Range(selectionRange.start, Cell(rowCount - 1, index))
  ELSE Range(Cell(0, index), Cell(rowCount - 1, index))

handleHeaderMouseDown(index, isRow, shiftKey) ==
  /\ mounted
  /\ ev' = IF isRow THEN "rowHeaderDown" ELSE "columnHeaderDown"
  /\ recomputed' = FALSE
  /\ isDraggingRef' = TRUE
  /\ headerDragTypeRef' = IF isRow THEN "row" ELSE "column"
  /\ isHeaderDragRef' = TRUE
  /\ selectionRange' = IF isRow THEN HeaderRowRange(index, shiftKey)
                                ELSE HeaderColumnRange(index, shiftKey)
  /\ selectedCell' =
       IF shiftKey /\ selectionRange # NoRange THEN selectedCell
       ELSE IF isRow THEN Cell(index, 0) ELSE Cell(0, index)
  /\ IF gridRef /\ isRow
     THEN /\ scrollTop' = ContainerClampTop(HeaderRowScrollTop(index))
          /\ UNCHANGED scrollLeft
     ELSE IF gridRef
          THEN /\ scrollLeft' =
                    ContainerClampLeft(HeaderColumnScrollLeft(index))
               /\ UNCHANGED scrollTop
          ELSE UNCHANGED << scrollLeft, scrollTop >>
  /\ SyncCommit
  /\ Deliver(~(shiftKey /\ selectionRange # NoRange), TRUE)
  /\ UNCHANGED << lastMousePositionRef, gridRef, rectWidth,
                  rectHeight, rowCount, scrollHookVars, mounted >>

(* ------------------------------------------------------------------ *)
(* handleCornerHeaderClick()                                          *)
(* ------------------------------------------------------------------ *)
\* faulty variant: the corner click starts drag tracking like the other pointer-downs
handleCornerHeaderClickStartsDrag ==
  /\ mounted
  /\ ~isDraggingRef
  /\ ev' = "cornerClick"
  /\ recomputed' = FALSE
  /\ isDraggingRef' = TRUE
  /\ selectedCell' = Cell(0, 0)
  /\ selectionRange' =
       Range(Cell(0, 0), Cell(rowCount - 1, columnCount - 1))
  /\ SyncCommit
  /\ Deliver(TRUE, TRUE)
  /\ UNCHANGED << headerDragTypeRef, isHeaderDragRef, lastMousePositionRef,
                  scrollLeft, scrollTop, gridRef, rectWidth,
                  rectHeight, rowCount, scrollHookVars, mounted >>

\* onClick of the corner element: the browser dispatches click after the
\* mouseup of the same press, whose window listener has reset the drag
\* flags, so the handler runs with no drag in progress.
handleCornerHeaderClick ==
  /\ mounted
  /\ ~isDraggingRef
  /\ ev' = "cornerClick"
  /\ recomputed' = FALSE
  /\ selectedCell' = Cell(0, 0)
  /\ selectionRange' =
       Range(Cell(0, 0), Cell(rowCount - 1, columnCount - 1))
  /\ SyncCommit
  /\ Deliver(TRUE, TRUE)
  /\ UNCHANGED << isDraggingRef, headerDragTypeRef, isHeaderDragRef,
                  lastMousePositionRef, scrollLeft, scrollTop, gridRef,
                  rectWidth, rectHeight, rowCount, scrollHookVars, mounted >>

(* ------------------------------------------------------------------ *)
(* updateSelectionRange(mouseX, mouseY, scrollLeft, scrollTop)        *)
(* ------------------------------------------------------------------ *)
\* faulty variant: the scroll offset is left out of the column computation
PixelToColNoScroll(mouseX, sl) ==
  Min(Max(0, mouseX \div defaultColumnWidth), columnCount - 1)

\* faulty variant: the quotient is rounded to the nearest column index
PixelToColRounded(mouseX, sl) ==
  Min(Max(0, (mouseX + sl + defaultColumnWidth \div 2)
               \div defaultColumnWidth),
      columnCount - 1)

\* pixel-to-cell mapping of updateSelectionRange
PixelToCol(mouseX, sl) ==
  Min(Max(0, (mouseX + sl) \div defaultColumnWidth), columnCount - 1)

\* faulty variant: the row index is not clamped to the grid
PixelToRowUnclamped(mouseY, st) ==
  (mouseY + st) \div defaultRowHeight

PixelToRow(mouseY, st) ==
  Min(Max(0, (mouseY + st) \div defaultRowHeight), rowCount - 1)

\* faulty variant: the range is rebuilt from the cell under the pointer, losing the
\* anchor
UpdatedRangeMovesAnchor(prev, mouseX, mouseY, sl, st) ==
  LET col == PixelToCol(mouseX, sl)
      row == PixelToRow(mouseY, st)
  IN  IF prev = NoRange THEN NoRange
      ELSE Range(Cell(row, col), Cell(row, col))

\* value returned by the setSelectionRange updater for previous range prev
UpdatedRange(prev, mouseX, mouseY, sl, st) ==
  LET col == PixelToCol(mouseX, sl)
      row == PixelToRow(mouseY, st)
  IN  IF prev = NoRange THEN NoRange
      ELSE IF headerDragTypeRef = "row"
           THEN Range(prev.start, Cell(row, columnCount - 1))
      ELSE IF headerDragTypeRef = "column"
           THEN Range(prev.start, Cell(rowCount - 1, col))
      ELSE Range(prev.start, Cell(row, col))

\* the state writes of updateSelectionRange; the re-render they cause is
\* scheduled, not flushed, when the caller is a window listener or an
\* animation-frame callback
updateSelectionRange(mouseX, mouseY, sl, st) ==
  IF selectionRange = NoRange \/ ~mounted
  THEN UNCHANGED << selectedCell, selectionRange, effectPending >>
  ELSE /\ selectionRange' =
            UpdatedRange(selectionRange, mouseX, mouseY, sl, st)
       /\ selectedCell' = selectionRange'.end
       /\ effectPending' = TRUE

(* ------------------------------------------------------------------ *)
(* handleMouseMove(e) and startScrolling()                            *)
(* ------------------------------------------------------------------ *)
\* sampled pointer positions (window coordinates): 60 px before the
\* viewport, one point inside it, 60 px past it
ClientXs ==
  { RectLeft - 60, RectLeft + Min(InsideX, ViewportWidth),
    RectLeft + ViewportWidth + 60 }
ClientYs ==
  { RectTop - 60, RectTop + InsideY, RectTop + ViewportHeight + 60 }

\* mouseX / mouseY of handleMouseMove after the header correction
RelativeX(clientX) ==
  IF headerDragTypeRef = "row" THEN 0 ELSE clientX - RectLeft
RelativeY(clientY) ==
  IF headerDragTypeRef = "column" THEN 0 ELSE clientY - RectTop

isOutsideGrid(mouseX, mouseY) ==
  \/ mouseX < 0
  \/ mouseX > ViewportWidth
  \/ mouseY < 0
  \/ mouseY > ViewportHeight

handleMouseMove(clientX, clientY) ==
  /\ mounted
  /\ ev' = "mouseMove"
  /\ recomputed' = FALSE
  /\ NoNotification
  /\ UNCHANGED << rectWidth, rectHeight, rowCount, scrollHookVars >>
  /\ IF ~isDraggingRef \/ ~gridRef
     THEN UNCHANGED << selectedCell, selectionRange, isDraggingRef,
                       headerDragTypeRef, isHeaderDragRef,
                       lastMousePositionRef, rafRef, rafQueue, effectPending,
                       scrollLeft, scrollTop, gridRef, mounted >>
     ELSE LET mouseX == RelativeX(clientX)
              mouseY == RelativeY(clientY)
          IN  /\ lastMousePositionRef' = Pos(mouseX, mouseY)
              /\ IF isOutsideGrid(mouseX, mouseY)
                 THEN \* startScrolling(): both references are non-null here
                      /\ Len(rafQueue) < MaxPending
                      /\ rafRef' = FreshId(rafQueue)
                      /\ rafQueue' =
                           Append(rafQueue, ScrollFrame(FreshId(rafQueue)))
                 ELSE UNCHANGED << rafRef, rafQueue >>
              /\ updateSelectionRange(mouseX, mouseY, scrollLeft, scrollTop)
              /\ UNCHANGED << isDraggingRef, headerDragTypeRef,
                              isHeaderDragRef, scrollLeft, scrollTop,
                              gridRef, mounted >>

(* ------------------------------------------------------------------ *)
(* The animation step `scroll' of startScrolling                      *)
(* ------------------------------------------------------------------ *)
maxSpeed == 30

\* floor of (distance * 0.15) ^ 1.5, saturated at maxSpeed; exact for the
\* sampled distances (60 gives 27, 240 gives more than maxSpeed)
PowerTerm(distance) ==
  CHOOSE k \in 0 .. maxSpeed :
    /\ k * k * 8000 <= 27 * distance * distance * distance
    /\ \/ k = maxSpeed
       \/ (k + 1) * (k + 1) * 8000 > 27 * distance * distance * distance

calculateScrollSpeed(position, size) ==
  LET distanceFromEdge ==
        IF position < 0 THEN -position
        ELSE IF position > size THEN position - size ELSE 0
      speed == 1 + PowerTerm(distanceFromEdge)
  IN  IF distanceFromEdge = 0 THEN 0
      ELSE IF position < 0 THEN -Min(speed, maxSpeed)
      ELSE Min(speed, maxSpeed)

\* faulty variant: the new offset is not clamped to the scroll range
StepScrollLeftUnclamped(mouseX) ==
  scrollLeft + calculateScrollSpeed(mouseX, ViewportWidth)

\* faulty variant: the base of the step is a fixed offset, not the offset the
\* container has when the step runs
StepScrollLeftFromOrigin(mouseX) ==
  Max(0, Min(contentWidth - ViewportWidth,
             calculateScrollSpeed(mouseX, ViewportWidth)))

\* newScrollLeft / newScrollTop of one step
StepScrollLeft(mouseX) ==
  Max(0, Min(contentWidth - ViewportWidth,
             scrollLeft + calculateScrollSpeed(mouseX, ViewportWidth)))
StepScrollTop(mouseY) ==
  Max(0, Min(contentHeight - ViewportHeight,
             scrollTop + calculateScrollSpeed(mouseY, ViewportHeight)))

\* faulty variant: the step does not test the renderer reference
ScrollStopsIgnoresRenderer ==
  ~isDraggingRef \/ ~lastMousePositionRef.set

\* the two early returns of the step: the drag has ended, or a reference
\* is lost
ScrollStops ==
  ~isDraggingRef \/ ~gridRef \/ ~lastMousePositionRef.set

\* faulty variant: a step whose two speeds are zero requests no further step
StepRequestsWhileMoving(rest) ==
  IF /\ calculateScrollSpeed(lastMousePositionRef.x, ViewportWidth) = 0
     /\ calculateScrollSpeed(lastMousePositionRef.y, ViewportHeight) = 0
  THEN rest
  ELSE Append(rest, ScrollFrame(FreshId(rest)))

\* the callbacks pending after the requestAnimationFrame(scroll) that ends
\* a step
StepRequests(rest) == Append(rest, ScrollFrame(FreshId(rest)))

\* faulty variant: the selection is recomputed from the offsets the container
\* had before the step
StepSelectionFromOldOffsets(mouseX, mouseY, newScrollLeft, newScrollTop) ==
  updateSelectionRange(mouseX, mouseY, scrollLeft, scrollTop)

\* the call of updateSelectionRange that follows scrollToPosition in a step
StepSelection(mouseX, mouseY, newScrollLeft, newScrollTop) ==
  updateSelectionRange(mouseX, mouseY, newScrollLeft, newScrollTop)

\* rest: the callbacks still pending once this one has been taken
scroll(frame, rest) ==
  /\ ev' = "scrollStep"
  /\ recomputed' = FALSE
  /\ IF ScrollStops
     THEN /\ rafRef' = RafNull
          /\ rafQueue' = rest
          /\ UNCHANGED << selectedCell, selectionRange, effectPending,
                          scrollLeft, scrollTop >>
     ELSE LET mouseX == lastMousePositionRef.x
              mouseY == lastMousePositionRef.y
              newScrollLeft == StepScrollLeft(mouseX)
              newScrollTop == StepScrollTop(mouseY)
          IN  /\ IF newScrollLeft # scrollLeft \/ newScrollTop # scrollTop
                 THEN /\ scrollLeft' = ContainerClampLeft(newScrollLeft)
                      /\ scrollTop' = ContainerClampTop(newScrollTop)
                      /\ StepSelection(mouseX, mouseY,
                                       newScrollLeft, newScrollTop)
                 ELSE UNCHANGED << selectedCell, selectionRange,
                                   effectPending, scrollLeft, scrollTop >>
              /\ rafRef' = FreshId(rest)
              /\ rafQueue' = StepRequests(rest)
  /\ NoNotification
  /\ UNCHANGED << isDraggingRef, headerDragTypeRef, isHeaderDragRef,
                  lastMousePositionRef, gridRef, rectWidth,
                  rectHeight, rowCount, scrollHookVars, mounted >>

(* ------------------------------------------------------------------ *)
(* moveCell(key, ctrlKey, shiftKey) and handleKeyDown(e)              *)
(* ------------------------------------------------------------------ *)
NavigationKeys ==
  { "ArrowUp", "ArrowDown", "ArrowLeft", "ArrowRight", "Home", "End" }
Keys == NavigationKeys \cup { "Enter" }

moveCellRow(key, ctrlKey) ==
  IF key = "ArrowUp" THEN Max(0, selectedCell.row - 1)
  ELSE IF key = "ArrowDown" THEN Min(rowCount - 1, selectedCell.row + 1)
  ELSE IF key = "Home" /\ ctrlKey THEN 0
  ELSE IF key = "End" /\ ctrlKey THEN rowCount - 1
  ELSE selectedCell.row

\* faulty variant: Home moves to the first column only together with ctrl
moveCellColHomeNeedsCtrl(key, ctrlKey) ==
  IF key = "ArrowLeft" THEN Max(0, selectedCell.col - 1)
  ELSE IF key = "ArrowRight" THEN Min(columnCount - 1, selectedCell.col + 1)
  ELSE IF key = "Home" /\ ctrlKey THEN 0
  ELSE IF key = "End" THEN columnCount - 1
  ELSE selectedCell.col

moveCellCol(key, ctrlKey) ==
  IF key = "ArrowLeft" THEN Max(0, selectedCell.col - 1)
  ELSE IF key = "ArrowRight" THEN Min(columnCount - 1, selectedCell.col + 1)
  ELSE IF key = "Home" THEN 0
  ELSE IF key = "End" THEN columnCount - 1
  ELSE selectedCell.col

handleKeyDown(key, ctrlKey, shiftKey) ==
  /\ mounted
  /\ ev' = "keyDown"
  /\ recomputed' = FALSE
  /\ IF key \notin NavigationKeys \/ selectedCell = NoCell
     THEN UNCHANGED << rafRef, rafQueue >>
     ELSE LET newRow == moveCellRow(key, ctrlKey)
              newCol == moveCellCol(key, ctrlKey)
          IN  IF newRow # selectedCell.row \/ newCol # selectedCell.col
              THEN /\ Len(rafQueue) < MaxPending
                   /\ rafRef' = FreshId(rafQueue)
                   /\ rafQueue' =
                        Append(rafQueue,
                               KeyFrame(FreshId(rafQueue), newRow, newCol,
                                        shiftKey, selectionRange))
              ELSE UNCHANGED << rafRef, rafQueue >>
  /\ NoNotification
  /\ UNCHANGED << selectedCell, selectionRange, isDraggingRef,
                  headerDragTypeRef, isHeaderDragRef, lastMousePositionRef,
                  effectPending, scrollLeft, scrollTop, gridRef, rectWidth,
                  rectHeight, rowCount, scrollHookVars,
                  mounted >>

\* gridRef.current?.scrollToCell: the renderer scrolls just enough to show
\* the cell
ScrollToCellLeft(col) ==
  IF col * defaultColumnWidth < scrollLeft THEN col * defaultColumnWidth
  ELSE IF (col + 1) * defaultColumnWidth > scrollLeft + ViewportWidth
       THEN (col + 1) * defaultColumnWidth - ViewportWidth
       ELSE scrollLeft
ScrollToCellTop(row) ==
  IF row * defaultRowHeight < scrollTop THEN row * defaultRowHeight
  ELSE IF (row + 1) * defaultRowHeight > scrollTop + ViewportHeight
       THEN (row + 1) * defaultRowHeight - ViewportHeight
       ELSE scrollTop

\* the callback moveCell hands to requestAnimationFrame
moveCellFrame(frame, rest) ==
  /\ ev' = "keyStep"
  /\ recomputed' = FALSE
  /\ rafQueue' = rest
  /\ rafRef' = IF rafRef = frame.id THEN RafStale ELSE rafRef
  /\ IF mounted
     THEN /\ selectedCell' = Cell(frame.row, frame.col)
          /\ selectionRange' =
               IF frame.shift /\ frame.start # NoCell
               THEN Range(frame.start, Cell(frame.row, frame.col))
               ELSE Range(Cell(frame.row, frame.col),
                          Cell(frame.row, frame.col))
          /\ effectPending' = TRUE
     ELSE UNCHANGED << selectedCell, selectionRange, effectPending >>
  /\ IF gridRef
     THEN /\ scrollLeft' = ContainerClampLeft(ScrollToCellLeft(frame.col))
          /\ scrollTop' = ContainerClampTop(ScrollToCellTop(frame.row))
     ELSE UNCHANGED << scrollLeft, scrollTop >>
  /\ NoNotification
  /\ UNCHANGED << isDraggingRef, headerDragTypeRef, isHeaderDragRef,
                  lastMousePositionRef, gridRef, rectWidth,
                  rectHeight, rowCount, scrollHookVars, mounted >>

\* the browser runs the oldest pending animation-frame callback
AnimationFrame ==
  /\ rafQueue # << >>
  /\ LET frame == Head(rafQueue)
         rest == Tail(rafQueue)
     IN  IF frame.kind = "scroll" THEN scroll(frame, rest)
         ELSE moveCellFrame(frame, rest)

(* ------------------------------------------------------------------ *)
(* handleMouseUp() and handleClearSelection()                         *)
(* ------------------------------------------------------------------ *)
\* faulty variant: the header drag type is not reset
handleMouseUpKeepsHeaderType ==
  /\ mounted
  /\ ev' = "mouseUp"
  /\ recomputed' = (rafRef # RafNull /\ gridRef)
  /\ isDraggingRef' = FALSE
  /\ isHeaderDragRef' = FALSE
  /\ lastMousePositionRef' = NoPos
  /\ rafQueue' = MarkPending(EffectCleanupQueue(rafQueue, rafRef))
  /\ rafRef' = Spent(rafRef)
  /\ NoNotification
  /\ UNCHANGED << selectedCell, selectionRange, headerDragTypeRef,
                  effectPending, scrollLeft, scrollTop, gridRef, rectWidth,
                  rectHeight, rowCount, scrollHookVars, mounted >>

\* faulty variant: the header-drag flag is not reset
handleMouseUpKeepsHeaderFlag ==
  /\ mounted
  /\ ev' = "mouseUp"
  /\ recomputed' = (rafRef # RafNull /\ gridRef)
  /\ isDraggingRef' = FALSE
  /\ headerDragTypeRef' = "null"
  /\ lastMousePositionRef' = NoPos
  /\ rafQueue' = MarkPending(EffectCleanupQueue(rafQueue, rafRef))
  /\ rafRef' = Spent(rafRef)
  /\ NoNotification
  /\ UNCHANGED << selectedCell, selectionRange, isHeaderDragRef,
                  effectPending, scrollLeft, scrollTop, gridRef, rectWidth,
                  rectHeight, rowCount, scrollHookVars,
                  mounted >>

handleMouseUp ==
  /\ mounted
  /\ ev' = "mouseUp"
  /\ recomputed' = (rafRef # RafNull /\ gridRef)
  /\ isDraggingRef' = FALSE
  /\ headerDragTypeRef' = "null"
  /\ isHeaderDragRef' = FALSE
  /\ lastMousePositionRef' = NoPos
  /\ rafQueue' = MarkPending(EffectCleanupQueue(rafQueue, rafRef))
  /\ rafRef' = Spent(rafRef)
  /\ NoNotification
  /\ UNCHANGED << selectedCell, selectionRange, effectPending, scrollLeft,
                  scrollTop, gridRef, rectWidth,
                  rectHeight, rowCount, scrollHookVars, mounted >>

\* faulty variant: clearing an empty selection commits and notifies again
handleClearSelectionAlwaysNotifies ==
  /\ mounted
  /\ ev' = "clearSelection"
  /\ recomputed' = FALSE
  /\ IF isDraggingRef \/ isHeaderDragRef
     THEN /\ NoNotification
          /\ UNCHANGED << selectedCell, selectionRange, rafRef, rafQueue,
                          effectPending >>
     ELSE /\ selectedCell' = NoCell
          /\ selectionRange' = NoRange
          /\ SyncCommit
          /\ Deliver(TRUE, TRUE)
  /\ UNCHANGED << isDraggingRef, headerDragTypeRef, isHeaderDragRef,
                  lastMousePositionRef, scrollLeft, scrollTop, gridRef,
                  rectWidth, rectHeight, rowCount, scrollHookVars, mounted >>

\* faulty variant: only the active cell is cleared
handleClearSelectionKeepsRange ==
  /\ mounted
  /\ ev' = "clearSelection"
  /\ recomputed' = FALSE
  /\ IF isDraggingRef \/ isHeaderDragRef
        \/ (selectedCell = NoCell /\ selectionRange = NoRange)
     THEN /\ NoNotification
          /\ UNCHANGED << selectedCell, selectionRange, rafRef, rafQueue,
                          effectPending >>
     ELSE /\ selectedCell' = NoCell
          /\ UNCHANGED selectionRange
          /\ SyncCommit
          /\ Deliver(selectedCell # NoCell, FALSE)
  /\ UNCHANGED << isDraggingRef, headerDragTypeRef, isHeaderDragRef,
                  lastMousePositionRef, scrollLeft, scrollTop, gridRef,
                  rectWidth, rectHeight, rowCount, scrollHookVars, mounted >>

\* clearSelection() of the host interface; setting a state that is null to
\* null schedules no render, so no effect runs
handleClearSelection ==
  /\ mounted
  /\ ev' = "clearSelection"
  /\ recomputed' = FALSE
  /\ IF isDraggingRef \/ isHeaderDragRef
        \/ (selectedCell = NoCell /\ selectionRange = NoRange)
     THEN /\ NoNotification
          /\ UNCHANGED << selectedCell, selectionRange, rafRef, rafQueue,
                          effectPending >>
     ELSE /\ selectedCell' = NoCell
          /\ selectionRange' = NoRange
          /\ SyncCommit
          /\ Deliver(selectedCell # NoCell, selectionRange # NoRange)
  /\ UNCHANGED << isDraggingRef, headerDragTypeRef, isHeaderDragRef,
                  lastMousePositionRef, scrollLeft, scrollTop, gridRef,
                  rectWidth, rectHeight, rowCount, scrollHookVars, mounted >>

\* faulty variant: the window listener runs before the onMouseUp prop, so the
\* flags are already reset when handleClearSelection tests them
BackgroundMouseUpWindowFirst ==
  /\ mounted
  /\ ev' = "backgroundMouseUp"
  /\ recomputed' = (rafRef # RafNull /\ gridRef)
  /\ selectedCell' = NoCell
  /\ selectionRange' = NoRange
  /\ effectPending' =
       IF selectedCell = NoCell /\ selectionRange = NoRange
       THEN effectPending ELSE FALSE
  /\ isDraggingRef' = FALSE
  /\ headerDragTypeRef' = "null"
  /\ isHeaderDragRef' = FALSE
  /\ lastMousePositionRef' = NoPos
  /\ IF selectedCell = NoCell /\ selectionRange = NoRange
     THEN NoNotification
     ELSE Deliver(selectedCell # NoCell, selectionRange # NoRange)
  /\ rafQueue' = MarkPending(EffectCleanupQueue(rafQueue, rafRef))
  /\ rafRef' = Spent(rafRef)
  /\ UNCHANGED << scrollLeft, scrollTop, gridRef, rectWidth,
                  rectHeight, rowCount, scrollHookVars, mounted >>

\* mouse-up on the empty background of the component: the onMouseUp prop
\* calls handleClearSelection, then the event reaches the window listener
\* handleMouseUp
BackgroundMouseUp ==
  /\ mounted
  /\ ev' = "backgroundMouseUp"
  /\ recomputed' = (rafRef # RafNull /\ gridRef)
  /\ IF isDraggingRef \/ isHeaderDragRef
     THEN UNCHANGED << selectedCell, selectionRange >>
     ELSE /\ selectedCell' = NoCell
          /\ selectionRange' = NoRange
  /\ effectPending' =
       IF isDraggingRef \/ isHeaderDragRef
          \/ (selectedCell = NoCell /\ selectionRange = NoRange)
       THEN effectPending ELSE FALSE
  /\ isDraggingRef' = FALSE
  /\ headerDragTypeRef' = "null"
  /\ isHeaderDragRef' = FALSE
  /\ lastMousePositionRef' = NoPos
  /\ IF isDraggingRef \/ isHeaderDragRef
        \/ (selectedCell = NoCell /\ selectionRange = NoRange)
     THEN NoNotification
     ELSE Deliver(selectedCell # NoCell, selectionRange # NoRange)
  /\ rafQueue' = MarkPending(EffectCleanupQueue(rafQueue, rafRef))
  /\ rafRef' = Spent(rafRef)
  /\ UNCHANGED << scrollLeft, scrollTop, gridRef, rectWidth,
                  rectHeight, rowCount, scrollHookVars, mounted >>

(* ------------------------------------------------------------------ *)
(* isCellSelected(row, col)                                           *)
(* ------------------------------------------------------------------ *)
\* faulty variant: start is taken for the upper left corner of the range
CellSelectedOrdered(cell, range, row, col) ==
  IF range # NoRange
  THEN /\ row >= range.start.row
       /\ row <= range.end.row
       /\ col >= range.start.col
       /\ col <= range.end.col
  ELSE cell # NoCell /\ cell.row = row /\ cell.col = col

\* the body of isCellSelected for the given selectedCell and selectionRange
CellSelected(cell, range, row, col) ==
  IF range # NoRange
  THEN LET minRow == Min(range.start.row, range.end.row)
           maxRow == Max(range.start.row, range.end.row)
           minCol == Min(range.start.col, range.end.col)
           maxCol == Max(range.start.col, range.end.col)
       IN  row >= minRow /\ row <= maxRow /\ col >= minCol /\ col <= maxCol
  ELSE cell # NoCell /\ cell.row = row /\ cell.col = col

isCellSelected(row, col) ==
  CellSelected(selectedCell, selectionRange, row, col)

(* ------------------------------------------------------------------ *)
(* React: scheduled re-render, renderer reference, unmount            *)
(* ------------------------------------------------------------------ *)
\* the scheduled re-render commits: handleKeyDown has changed, so the
\* window-listener effect is cleaned up and bound again
FlushEffects ==
  /\ mounted
  /\ effectPending
  /\ ev' = "flushEffects"
  /\ recomputed' = FALSE
  /\ SyncCommit
  /\ UNCHANGED << selectedCell, selectionRange, isDraggingRef,
                  headerDragTypeRef, isHeaderDragRef, lastMousePositionRef,
                  scrollLeft, scrollTop, gridRef, rectWidth,
                  rectHeight, rowCount, scrollHookVars, mounted >>
  /\ Deliver(FALSE, FALSE)

\* the Grid is detached from / attached to gridRef while the hook lives
GridRefChange ==
  /\ mounted
  /\ ev' = "gridRefChange"
  /\ recomputed' = FALSE
  /\ gridRef' = ~gridRef
  /\ NoNotification
  /\ UNCHANGED << selectedCell, selectionRange, isDraggingRef,
                  headerDragTypeRef, isHeaderDragRef, lastMousePositionRef,
                  rafRef, rafQueue, effectPending, scrollLeft, scrollTop,
                  rectWidth, rectHeight, rowCount, scrollHookVars, mounted >>

\* the user scrolls the container (wheel, scroll bar): the browser sets the
\* offsets that container.scrollLeft / container.scrollTop return; the hook
\* has no listener for it
WheelLeft == 7
WheelTop == 5

containerScroll(left, top) ==
  /\ mounted
  /\ gridRef
  /\ ev' = "wheel"
  /\ recomputed' = FALSE
  /\ scrollLeft' = ContainerClampLeft(left)
  /\ scrollTop' = ContainerClampTop(top)
  /\ << scrollLeft', scrollTop' >> # << scrollLeft, scrollTop >>
  /\ NoNotification
  /\ UNCHANGED << selectedCell, selectionRange, isDraggingRef,
                  headerDragTypeRef, isHeaderDragRef, lastMousePositionRef,
                  rafRef, rafQueue, effectPending, gridRef, rectWidth,
                  rectHeight, rowCount, scrollHookVars, mounted >>

\* unmount: the cleanup of the window-listener effect runs for the last time
Teardown ==
  /\ mounted
  /\ ev' = "teardown"
  /\ recomputed' = FALSE
  /\ mounted' = FALSE
  /\ gridRef' = FALSE
  /\ rafQueue' = MarkPending(EffectCleanupQueue(rafQueue, rafRef))
  /\ rafRef' = Spent(rafRef)
  /\ effectPending' = FALSE
  /\ NoNotification
  /\ UNCHANGED << selectedCell, selectionRange, isDraggingRef,
                  headerDragTypeRef, isHeaderDragRef, lastMousePositionRef,
                  scrollLeft, scrollTop, rectWidth,
                  rectHeight, rowCount, scrollHookVars >>

Next ==
  \/ \E r \in Rows, c \in Cols, s \in BOOLEAN : handleMouseDown(r, c, s)
  \/ \E i \in Rows, s \in BOOLEAN : handleHeaderMouseDown(i, TRUE, s)
  \/ \E i \in Cols, s \in BOOLEAN : handleHeaderMouseDown(i, FALSE, s)
  \/ handleCornerHeaderClick
  \/ \E x \in ClientXs, y \in ClientYs : handleMouseMove(x, y)
  \/ \E k \in Keys, c \in BOOLEAN, s \in BOOLEAN : handleKeyDown(k, c, s)
  \/ AnimationFrame
  \/ handleMouseUp
  \/ handleClearSelection
  \/ BackgroundMouseUp
  \/ FlushEffects
  \/ GridRefChange
  \/ Teardown

Spec == Init /\ [][Next]_vars

\* pointer gestures only: no keyboard, renderer attached, hook mounted
\* (the keyboard callbacks make the full relation too large to enumerate)
NextPointer ==
  \/ \E r \in Rows, c \in Cols, s \in BOOLEAN : handleMouseDown(r, c, s)
  \/ \E i \in Rows, s \in BOOLEAN : handleHeaderMouseDown(i, TRUE, s)
  \/ \E i \in Cols, s \in BOOLEAN : handleHeaderMouseDown(i, FALSE, s)
  \/ handleCornerHeaderClick
  \/ \E x \in ClientXs, y \in ClientYs : handleMouseMove(x, y)
  \/ AnimationFrame
  \/ handleMouseUp
  \/ handleClearSelection
  \/ BackgroundMouseUp
  \/ FlushEffects

SpecPointer == Init /\ [][NextPointer]_vars

\* keyboard navigation: clicks on cells (pointer-down, pointer-up) and key
\* presses, renderer attached, hook mounted
NextKeyboard ==
  \/ \E r \in Rows, c \in Cols, s \in BOOLEAN : handleMouseDown(r, c, s)
  \/ handleMouseUp
  \/ \E k \in Keys, c \in BOOLEAN, s \in BOOLEAN : handleKeyDown(k, c, s)
  \/ AnimationFrame
  \/ handleClearSelection
  \/ FlushEffects

SpecKeyboard == Init /\ [][NextKeyboard]_vars

\* a cell drag in a narrow container, the pointer moving along one line:
\* a pointer-down starts a drag, a pointer-move is delivered when the
\* pointer changes its position.  Pending animation-frame callbacks are run
\* and scheduled re-renders are committed; nothing obliges the user to act.
InitHold == InitWith(NarrowWidth, {})

NextHold ==
  \/ \E r \in Rows, c \in Cols :
       ~isDraggingRef /\ handleMouseDown(r, c, FALSE)
  \/ \E x \in ClientXs :
       /\ ~(lastMousePositionRef.set
            /\ lastMousePositionRef.x = x - RectLeft)
       /\ handleMouseMove(x, RectTop + InsideY)
  \/ AnimationFrame
  \/ FlushEffects
  \/ handleMouseUp

SpecHold ==
  /\ InitHold
  /\ [][NextHold]_vars
  /\ WF_vars(AnimationFrame)
  /\ WF_vars(FlushEffects)

\* cell drags while the Grid is detached from and attached to gridRef
NextRenderer ==
  \/ \E r \in Rows, c \in Cols, s \in BOOLEAN : handleMouseDown(r, c, s)
  \/ \E x \in ClientXs, y \in ClientYs : handleMouseMove(x, y)
  \/ AnimationFrame
  \/ handleMouseUp
  \/ FlushEffects
  \/ GridRefChange

SpecRenderer == Init /\ [][NextRenderer]_vars

\* the pointer gestures of a hook that is unmounted at some moment
NextTeardown ==
  \/ NextPointer
  \/ Teardown

SpecTeardown == Init /\ [][NextTeardown]_vars

\* a cell drag whose pointer-moves visit, in every cell of the grid, the
\* first, second, middle and last pixel of the cell on each axis
PixelOffsets(size) == { 0, 1, size \div 2, size - 1 }

PixelClientXs ==
  { RectLeft + c * defaultColumnWidth + e :
      c \in Cols, e \in PixelOffsets(defaultColumnWidth) }
PixelClientYs ==
  { RectTop + r * defaultRowHeight + e :
      r \in Rows, e \in PixelOffsets(defaultRowHeight) }

NextPixel ==
  \/ \E r \in Rows, c \in Cols :
       ~isDraggingRef /\ handleMouseDown(r, c, FALSE)
  \/ \E x \in PixelClientXs, y \in PixelClientYs : handleMouseMove(x, y)
  \/ AnimationFrame
  \/ handleMouseUp
  \/ FlushEffects

SpecPixel == Init /\ [][NextPixel]_vars

\* pointer gestures, key presses and clears together: pointer-downs on every
\* cell, on the first header of each kind and on the corner, pointer-moves
\* along one line, the keys ArrowDown and Home without ctrl
NextSelection ==
  \/ \E r \in Rows, c \in Cols, s \in BOOLEAN : handleMouseDown(r, c, s)
  \/ \E isRow \in BOOLEAN, s \in BOOLEAN : handleHeaderMouseDown(0, isRow, s)
  \/ handleCornerHeaderClick
  \/ \E x \in ClientXs : handleMouseMove(x, RectTop + InsideY)
  \/ \E k \in { "ArrowDown", "Home" }, s \in BOOLEAN :
       handleKeyDown(k, FALSE, s)
  \/ AnimationFrame
  \/ handleMouseUp
  \/ handleClearSelection
  \/ BackgroundMouseUp
  \/ FlushEffects

SpecSelection == Init /\ [][NextSelection]_vars

\* clicks and ArrowDown presses on a grid of TallGridRows rows
InitTall ==
  InitGrid(TallGridRows, contentWidth - ScrollRoomX,
           TallGridRows * defaultRowHeight - ScrollRoomY, {})

NextTallKeys ==
  \/ \E r \in Rows, c \in Cols : handleMouseDown(r, c, FALSE)
  \/ handleMouseUp
  \/ handleKeyDown("ArrowDown", FALSE, FALSE)
  \/ AnimationFrame
  \/ FlushEffects

SpecTallKeys == InitTall /\ [][NextTallKeys]_vars

\* a cell drag during which the user may scroll the container
NextWheel ==
  \/ \E r \in Rows, c \in Cols :
       ~isDraggingRef /\ handleMouseDown(r, c, FALSE)
  \/ \E x \in ClientXs, y \in ClientYs : handleMouseMove(x, y)
  \/ AnimationFrame
  \/ handleMouseUp
  \/ FlushEffects
  \/ containerScroll(WheelLeft, WheelTop)

SpecWheel == Init /\ [][NextWheel]_vars

\* the pointer gestures with a host that passes both observers
InitObserved == InitWith(contentWidth - ScrollRoomX, Observers)

SpecObserved == InitObserved /\ [][NextPointer]_vars

(* ------------------------------------------------------------------ *)
(* useSpreadsheetScroll (src/unnamed/part_002) inside the revision of  *)
(* useSpreadsheetSelection that calls it                               *)
(* (src/app/hooks/useSpreadsheetSelection.ts, lines 586-1071).  The    *)
(* host's state and refs are the variables of the same names; rafRef   *)
(* is the hook's, this host has none.  The host passes no observers.   *)
(* ------------------------------------------------------------------ *)
SCROLL_ZONE_THRESHOLD == 50
BASE_SCROLL_SPEED == 2
MAX_SCROLL_SPEED == 30

\* calculateScrollZone(rect): the edges of the bounding rectangle in
\* window coordinates
calculateScrollZone ==
  [left |-> RectLeft, right |-> RectLeft + ViewportWidth,
   top |-> RectTop, bottom |-> RectTop + ViewportHeight,
   threshold |-> SCROLL_ZONE_THRESHOLD]

\* faulty variant: the speed is not limited
EdgeSpeedUnlimited(distance) ==
  BASE_SCROLL_SPEED + distance \div 10

\* Math.min(MAX_SCROLL_SPEED, BASE_SCROLL_SPEED + distance / 10); the
\* sampled pointer positions make the distance a multiple of 10
EdgeSpeed(distance) ==
  Min(MAX_SCROLL_SPEED, BASE_SCROLL_SPEED + distance \div 10)

\* calculateScrollDirection(mouseX, mouseY, zone): the vertical test runs
\* after the horizontal one and overwrites its result
calculateScrollDirection(mouseX, mouseY, zone) ==
  LET horizontal ==
        IF mouseX < zone.left + zone.threshold
        THEN [direction |-> "left",
              speed |-> EdgeSpeed(zone.left + zone.threshold - mouseX)]
        ELSE IF mouseX > zone.right - zone.threshold
        THEN [direction |-> "right",
              speed |-> EdgeSpeed(mouseX - (zone.right - zone.threshold))]
        ELSE [direction |-> "null", speed |-> 0]
  IN  IF mouseY < zone.top + zone.threshold
      THEN [direction |-> "up",
            speed |-> EdgeSpeed(zone.top + zone.threshold - mouseY)]
      ELSE IF mouseY > zone.bottom - zone.threshold
      THEN [direction |-> "down",
            speed |-> EdgeSpeed(mouseY - (zone.bottom - zone.threshold))]
      ELSE horizontal

\* sampled pointer positions (window coordinates) whose distances in the
\* speed formula are multiples of 10: for the geometry above they lie on
\* one vertical line (offset 76), one inside the viewport (offset 20) and
\* one past its lower edge (offset 90)
ScrollClientXs ==
  { 2 * RectLeft + SCROLL_ZONE_THRESHOLD - 90 }
ScrollClientYs ==
  { 2 * RectTop + SCROLL_ZONE_THRESHOLD - 70,
    2 * RectTop + ViewportHeight - SCROLL_ZONE_THRESHOLD + 70 }

\* handleMouseMove(e) of the hook, as created by a render in which the prop
\* isDragging had the value closureIsDragging
scrollHandleMouseMove(closureIsDragging, clientX, clientY) ==
  IF ~closureIsDragging \/ ~gridRef
  THEN UNCHANGED << scrollStateUpdate, scrollLastMousePositionRef >>
  ELSE LET mouseX == clientX - RectLeft
           mouseY == clientY - RectTop
           newScrollState ==
             calculateScrollDirection(mouseX, mouseY, calculateScrollZone)
       IN  /\ scrollStateUpdate' =
                [direction |-> newScrollState.direction,
                 speed |-> newScrollState.speed,
                 idle |-> ~isDraggingRef]
           /\ scrollLastMousePositionRef' = Pos(mouseX, mouseY)

\* the callback `scroll' handed to requestAnimationFrame by startScrolling:
\* it keeps the isDragging and the scrollState of the render that created
\* startScrolling
HookFrame(id, drag, state) ==
  [id |-> id, kind |-> "hookScroll", isDragging |-> drag, state |-> state,
   row |-> -1, col |-> -1]

\* the callback that onScroll of the host hands to requestAnimationFrame
OnScrollFrame(id, r, c) ==
  [id |-> id, kind |-> "onScroll", isDragging |-> FALSE, state |-> NoScroll,
   row |-> r, col |-> c]

\* startScrolling() of the render with prop drag and state `state', for
\* rafRef.current = handle and the pending callbacks q
startScrolling(drag, state, handle, q) ==
  IF ~scrollLastMousePositionRef.set \/ ~gridRef
  THEN [ref |-> handle, queue |-> q]
  ELSE LET kept == IF handle # RafNull THEN CancelFrame(q, handle) ELSE q
           id == FreshId(kept)
       IN  [ref |-> id, queue |-> Append(kept, HookFrame(id, drag, state))]

\* the passive effects of a commit with prop drag and state `state': the
\* cleanup of the window-listener effect when handleMouseMove has changed
\* (bound is the isDragging of the listener bound so far), then the effect
\* on [scrollState.isScrolling, startScrolling]; startScrolling is new in
\* every render because the host's onScroll is
PassiveEffects(drag, state, bound, handle, q) ==
  LET cleaned ==
        IF drag # bound /\ handle # RafNull
        THEN [ref |-> Spent(handle), queue |-> CancelFrame(q, handle)]
        ELSE [ref |-> handle, queue |-> q]
  IN  IF state.direction # "null"
      THEN startScrolling(drag, state, cleaned.ref, cleaned.queue)
      ELSE IF cleaned.ref # RafNull
      THEN [ref |-> Spent(cleaned.ref),
            queue |-> CancelFrame(cleaned.queue, cleaned.ref)]
      ELSE cleaned

\* rafRef.current and the pending callbacks once the effects of an earlier
\* commit, if they have not run yet, have been flushed
FlushedEffects ==
  IF passivePending
  THEN PassiveEffects(isDragging, scrollState, boundIsDragging, rafRef,
                      rafQueue)
  ELSE [ref |-> rafRef, queue |-> rafQueue]

\* handleMouseDown(row, col, shiftKey) of the host.  The render it causes is
\* flushed with the event and so are its effects; whether that render
\* already applies a setScrollState made by an earlier pointer-move
\* (applied) is decided by the scheduler
hostHandleMouseDown(row, col, shiftKey, applied) ==
  /\ ev' = "hostCellDown"
  /\ recomputed' = FALSE
  /\ NoNotification
  /\ IF isHeaderDragRef
     THEN UNCHANGED << selectedCell, selectionRange, isDraggingRef,
                       headerDragTypeRef, isHeaderDragRef,
                       lastMousePositionRef, rafRef, rafQueue,
                       effectPending, scrollLeft, scrollTop, gridRef,
                       rectWidth, rectHeight,
                       rowCount, mounted, scrollHookVars >>
     ELSE /\ isDraggingRef' = TRUE
          /\ selectionRange' = MouseDownRange(row, col, shiftKey)
          /\ selectedCell' =
               IF shiftKey /\ selectedCell # NoCell THEN selectedCell
               ELSE Cell(row, col)
          /\ IF gridRef
             THEN /\ scrollTop' = ContainerClampTop(MouseDownScrollTop(row))
                  /\ scrollLeft' =
                       ContainerClampLeft(MouseDownScrollLeft(col))
             ELSE UNCHANGED << scrollLeft, scrollTop >>
          /\ LET state == IF applied /\ scrollStateUpdate # NoUpdate
                          THEN scrollStateUpdate ELSE scrollState
                 bound == IF passivePending THEN isDragging
                          ELSE boundIsDragging
                 done == PassiveEffects(TRUE, state, bound,
                                        FlushedEffects.ref,
                                        FlushedEffects.queue)
             IN  /\ scrollState' = state
                 /\ scrollStateUpdate' =
                      IF applied THEN NoUpdate ELSE scrollStateUpdate
                 /\ effectPending' = (~applied /\ effectPending)
                 /\ rafRef' = done.ref
                 /\ rafQueue' = done.queue
          /\ isDragging' = TRUE
          /\ boundIsDragging' = TRUE
          /\ passivePending' = FALSE
          /\ UNCHANGED << headerDragTypeRef, isHeaderDragRef,
                          lastMousePositionRef, gridRef, rectWidth,
                          rectHeight, rowCount, mounted,
                          scrollLastMousePositionRef >>

\* handleMouseMove(e) of the host, called by the component for a
\* pointer-move over the grid; handleScrollMouseMove is the one of the
\* last render
hostHandleMouseMove(clientX, clientY) ==
  /\ ev' = "hostMouseMove"
  /\ recomputed' = FALSE
  /\ NoNotification
  /\ IF ~isDraggingRef \/ ~gridRef
     THEN UNCHANGED << selectedCell, selectionRange, lastMousePositionRef,
                       effectPending, scrollStateUpdate,
                       scrollLastMousePositionRef >>
     ELSE LET mouseX == RelativeX(clientX)
              mouseY == RelativeY(clientY)
          IN  /\ lastMousePositionRef' = Pos(mouseX, mouseY)
              /\ scrollHandleMouseMove(isDragging, clientX, clientY)
              /\ IF selectionRange = NoRange
                 THEN /\ effectPending' = (effectPending \/ isDragging)
                      /\ UNCHANGED << selectedCell, selectionRange >>
                 ELSE /\ selectionRange' =
                           UpdatedRange(selectionRange, mouseX, mouseY,
                                        scrollLeft, scrollTop)
                      /\ selectedCell' = selectionRange'.end
                      /\ effectPending' = TRUE
  /\ UNCHANGED << isDraggingRef, headerDragTypeRef, isHeaderDragRef, rafRef,
                  rafQueue, scrollLeft, scrollTop, gridRef, rectWidth,
                  rectHeight, rowCount, mounted, isDragging, boundIsDragging,
                  scrollState, passivePending >>

\* the window listener of the hook: the handleMouseMove bound by the effects
\* that ran last
windowMouseMove(clientX, clientY) ==
  /\ ev' = "hookMouseMove"
  /\ recomputed' = FALSE
  /\ NoNotification
  /\ scrollHandleMouseMove(boundIsDragging, clientX, clientY)
  /\ effectPending' = (effectPending \/ (boundIsDragging /\ gridRef))
  /\ UNCHANGED << selectedCell, selectionRange, isDraggingRef,
                  headerDragTypeRef, isHeaderDragRef, lastMousePositionRef,
                  rafRef, rafQueue, scrollLeft, scrollTop, gridRef,
                  rectWidth, rectHeight,
                  rowCount, mounted, isDragging, boundIsDragging,
                  scrollState, passivePending >>

\* handleMouseUp() of the host with stopScrolling() of the hook; no state
\* is set, so nothing is rendered
hostHandleMouseUp ==
  /\ ev' = "hostMouseUp"
  /\ recomputed' = (rafRef # RafNull /\ gridRef)
  /\ NoNotification
  /\ isDraggingRef' = FALSE
  /\ headerDragTypeRef' = "null"
  /\ isHeaderDragRef' = FALSE
  /\ IF rafRef # RafNull
     THEN /\ rafQueue' = CancelFrame(rafQueue, rafRef)
          /\ rafRef' = Spent(rafRef)
     ELSE UNCHANGED << rafRef, rafQueue >>
  /\ UNCHANGED << selectedCell, selectionRange, lastMousePositionRef,
                  effectPending, scrollLeft, scrollTop, gridRef, rectWidth,
                  rectHeight, rowCount,
                  mounted, scrollHookVars >>

\* a scheduled re-render commits: the effects of the commit before it are
\* flushed first, the state updates are applied, and the host reads
\* isDraggingRef.current for the prop isDragging
Render ==
  /\ effectPending
  /\ ev' = "render"
  /\ recomputed' = FALSE
  /\ NoNotification
  /\ rafRef' = FlushedEffects.ref
  /\ rafQueue' = FlushedEffects.queue
  /\ boundIsDragging' =
       IF passivePending THEN isDragging ELSE boundIsDragging
  /\ scrollState' =
       IF scrollStateUpdate # NoUpdate THEN scrollStateUpdate
       ELSE scrollState
  /\ scrollStateUpdate' = NoUpdate
  /\ isDragging' = isDraggingRef
  /\ passivePending' = TRUE
  /\ effectPending' = FALSE
  /\ UNCHANGED << selectedCell, selectionRange, isDraggingRef,
                  headerDragTypeRef, isHeaderDragRef, lastMousePositionRef,
                  scrollLeft, scrollTop, gridRef, rectWidth,
                  rectHeight, rowCount, mounted,
                  scrollLastMousePositionRef >>

\* the passive effects of the last commit run
RunPassiveEffects ==
  /\ passivePending
  /\ ev' = "effects"
  /\ recomputed' = FALSE
  /\ NoNotification
  /\ rafRef' = FlushedEffects.ref
  /\ rafQueue' = FlushedEffects.queue
  /\ boundIsDragging' = isDragging
  /\ passivePending' = FALSE
  /\ UNCHANGED << selectedCell, selectionRange, isDraggingRef,
                  headerDragTypeRef, isHeaderDragRef, lastMousePositionRef,
                  effectPending, scrollLeft, scrollTop, gridRef, rectWidth,
                  rectHeight, rowCount,
                  mounted, isDragging, scrollState, scrollStateUpdate,
                  scrollLastMousePositionRef >>

\* the first statement of the callback `scroll' of the hook
ScrollReturnsEarly(frame) ==
  ~frame.isDragging \/ ~gridRef \/ ~scrollLastMousePositionRef.set

\* newScrollLeft / newScrollTop of the callback
HookStepScrollLeft(state) ==
  LET scrollSpeedX == IF state.direction = "left" THEN -state.speed
                      ELSE IF state.direction = "right" THEN state.speed
                      ELSE 0
      maxScrollLeft == (columnCount * defaultColumnWidth) - ViewportWidth
  IN  Max(0, Min(maxScrollLeft, scrollLeft + scrollSpeedX))
HookStepScrollTop(state) ==
  LET scrollSpeedY == IF state.direction = "up" THEN -state.speed
                      ELSE IF state.direction = "down" THEN state.speed
                      ELSE 0
      maxScrollTop == (rowCount * defaultRowHeight) - ViewportHeight
  IN  Max(0, Min(maxScrollTop, scrollTop + scrollSpeedY))

\* onScroll(scrollLeft, scrollTop) of the host: the pending callbacks with
\* the one it requests, if any
onScroll(newScrollLeft, newScrollTop, q) ==
  IF isDraggingRef /\ lastMousePositionRef.set
  THEN Append(q, OnScrollFrame(FreshId(q),
                PixelToRow(lastMousePositionRef.y, newScrollTop),
                PixelToCol(lastMousePositionRef.x, newScrollLeft)))
  ELSE q

\* the callback `scroll' of the hook runs; rest: the callbacks still pending
hookScroll(frame, rest) ==
  /\ ev' = "hookScrollStep"
  /\ recomputed' = FALSE
  /\ IF ScrollReturnsEarly(frame)
     THEN /\ rafRef' = IF rafRef = frame.id THEN RafStale ELSE rafRef
          /\ rafQueue' = rest
          /\ UNCHANGED << scrollLeft, scrollTop >>
     ELSE LET newScrollLeft == HookStepScrollLeft(frame.state)
              newScrollTop == HookStepScrollTop(frame.state)
              moved == newScrollLeft # scrollLeft \/ newScrollTop # scrollTop
              notified1 == IF moved
                           THEN onScroll(newScrollLeft, newScrollTop, rest)
                           ELSE rest
          IN  /\ scrollLeft' = IF moved THEN ContainerClampLeft(newScrollLeft)
                               ELSE scrollLeft
              /\ scrollTop' = IF moved THEN ContainerClampTop(newScrollTop)
                              ELSE scrollTop
              /\ IF frame.state.direction # "null"
                 THEN /\ rafRef' = FreshId(notified1)
                      /\ rafQueue' =
                           Append(notified1,
                                  HookFrame(FreshId(notified1),
                                            frame.isDragging, frame.state))
                 ELSE /\ rafRef' = IF rafRef = frame.id THEN RafStale
                                   ELSE rafRef
                      /\ rafQueue' = notified1
  /\ NoNotification
  /\ UNCHANGED << selectedCell, selectionRange, isDraggingRef,
                  headerDragTypeRef, isHeaderDragRef, lastMousePositionRef,
                  effectPending, gridRef, rectWidth, rectHeight,
                  rowCount, mounted,
                  scrollHookVars >>

\* the callback requested by onScroll runs: setSelectionRange with the cell
\* computed when the hook scrolled
onScrollCommit(frame, rest) ==
  /\ ev' = "onScrollCommit"
  /\ recomputed' = FALSE
  /\ rafQueue' = rest
  /\ IF selectionRange = NoRange
     THEN UNCHANGED << selectedCell, selectionRange, effectPending >>
     ELSE /\ selectionRange' =
               IF headerDragTypeRef = "row"
               THEN Range(selectionRange.start,
                          Cell(frame.row, columnCount - 1))
               ELSE IF headerDragTypeRef = "column"
               THEN Range(selectionRange.start,
                          Cell(rowCount - 1, frame.col))
               ELSE Range(selectionRange.start, Cell(frame.row, frame.col))
          /\ selectedCell' = selectionRange'.end
          /\ effectPending' = TRUE
  /\ NoNotification
  /\ UNCHANGED << isDraggingRef, headerDragTypeRef, isHeaderDragRef,
                  lastMousePositionRef, rafRef, scrollLeft, scrollTop,
                  gridRef, rectWidth, rectHeight,
                  rowCount, mounted, scrollHookVars >>

\* the browser runs the oldest pending animation-frame callback
HookAnimationFrame ==
  /\ rafQueue # << >>
  /\ LET frame == Head(rafQueue)
         rest == Tail(rafQueue)
     IN  IF frame.kind = "hookScroll" THEN hookScroll(frame, rest)
         ELSE onScrollCommit(frame, rest)

\* cell drags with the autoscroll hook: plain pointer-downs on cells,
\* pointer-moves over the grid (both handlers) and elsewhere in the window
\* (the hook's listener), pointer-ups, renders, effects and animation frames
NextScroll ==
  \/ \E r \in Rows, c \in Cols, a \in BOOLEAN :
       hostHandleMouseDown(r, c, FALSE, a)
  \/ \E x \in ScrollClientXs, y \in ScrollClientYs : hostHandleMouseMove(x, y)
  \/ \E x \in ScrollClientXs, y \in ScrollClientYs : windowMouseMove(x, y)
  \/ hostHandleMouseUp
  \/ Render
  \/ RunPassiveEffects
  \/ HookAnimationFrame

SpecScroll == Init /\ [][NextScroll]_vars

\* the same gestures with every pointer-move past the lower right corner of
\* the viewport: 60 pixels below the lower edge and 76 pixels to the right
\* of the right edge, where both tests of calculateScrollDirection succeed
\* (the distances of the speed formula are 70 and 10)
CornerClientXs ==
  { 2 * RectLeft + ViewportWidth - SCROLL_ZONE_THRESHOLD + 10 }
CornerClientYs ==
  { 2 * RectTop + ViewportHeight - SCROLL_ZONE_THRESHOLD + 70 }

NextCorner ==
  \/ \E r \in Rows, c \in Cols, a \in BOOLEAN :
       hostHandleMouseDown(r, c, FALSE, a)
  \/ \E x \in CornerClientXs, y \in CornerClientYs :
       hostHandleMouseMove(x, y)
  \/ \E x \in CornerClientXs, y \in CornerClientYs : windowMouseMove(x, y)
  \/ hostHandleMouseUp
  \/ Render
  \/ RunPassiveEffects
  \/ HookAnimationFrame

SpecCorner == Init /\ [][NextCorner]_vars

\* the same gestures in a container that is larger than the content and has
\* points farther than the threshold from all four of its edges
ZoneWidth == 300
ZoneHeight == 200

InitZone == InitRect(ZoneWidth, ZoneHeight, {})

\* sampled pointer positions (window coordinates) farther than the threshold
\* from the left and right edges, one on each side of the horizontal test
\* of calculateScrollDirection, at a distance of 10
ZoneClientXs ==
  { 2 * RectLeft + SCROLL_ZONE_THRESHOLD - 10,
    2 * RectLeft + SCROLL_ZONE_THRESHOLD + 10 }
\* the same for the upper edge, and one position 40 pixels above the lower
\* edge
ZoneClientYs ==
  { 2 * RectTop + SCROLL_ZONE_THRESHOLD - 10,
    2 * RectTop + SCROLL_ZONE_THRESHOLD + 10,
    RectTop + ViewportHeight - 40 }

NextZone ==
  \/ \E r \in Rows, c \in Cols, a \in BOOLEAN :
       hostHandleMouseDown(r, c, FALSE, a)
  \/ \E x \in ZoneClientXs, y \in ZoneClientYs : hostHandleMouseMove(x, y)
  \/ \E x \in ZoneClientXs, y \in ZoneClientYs : windowMouseMove(x, y)
  \/ hostHandleMouseUp
  \/ Render
  \/ RunPassiveEffects
  \/ HookAnimationFrame

SpecZone == InitZone /\ [][NextZone]_vars

\* the same container with one more pointer position, 300 pixels above the
\* line of the upper test, where the speed formula exceeds MAX_SCROLL_SPEED
SpeedClientYs ==
  ZoneClientYs \cup { 2 * RectTop + SCROLL_ZONE_THRESHOLD - 300 }

NextSpeed ==
  \/ \E r \in Rows, c \in Cols, a \in BOOLEAN :
       hostHandleMouseDown(r, c, FALSE, a)
  \/ \E x \in ZoneClientXs, y \in SpeedClientYs : hostHandleMouseMove(x, y)
  \/ \E x \in ZoneClientXs, y \in SpeedClientYs : windowMouseMove(x, y)
  \/ hostHandleMouseUp
  \/ Render
  \/ RunPassiveEffects
  \/ HookAnimationFrame

SpecSpeed == InitZone /\ [][NextSpeed]_vars

(* ------------------------------------------------------------------ *)
(* Properties                                                         *)
(* ------------------------------------------------------------------ *)
FullRange == Range(Cell(0, 0), Cell(rowCount - 1, columnCount - 1))
SingleCell(r, c) == Range(Cell(r, c), Cell(r, c))

\* pointer at window position (x, y) lies inside the viewport rectangle
PointerInside(x, y) ==
  /\ RectLeft <= x
  /\ x <= RectLeft + ViewportWidth
  /\ RectTop <= y
  /\ y <= RectTop + ViewportHeight

\* the cell whose pixel rectangle contains content point (px, py)
IsCellAt(cell, px, py) ==
  /\ cell.col \in Cols
  /\ cell.row \in Rows
  /\ cell.col * defaultColumnWidth <= px
  /\ px < (cell.col + 1) * defaultColumnWidth
  /\ cell.row * defaultRowHeight <= py
  /\ py < (cell.row + 1) * defaultRowHeight

\* C1: while a drag is in progress (a pointer-down has set the drag flag and
\* no pointer-up has reset it), a pointer-move or an autoscroll step leaves
\* selectionRange.start unchanged.
C1_AnchorInvariance ==
  [][ (ev' \in { "mouseMove", "scrollStep" } /\ isDraggingRef)
        => selectionRange'.start = selectionRange.start ]_vars

\* an autoscroll step has scrolled during a drag and moved the end of the
\* range away from the anchor
C1_Witness ==
  /\ ev = "scrollStep"
  /\ isDraggingRef
  /\ scrollLeft > 0
  /\ selectionRange # NoRange
  /\ selectionRange.end # selectionRange.start

\* C2: pointer-down on cell (r, c) without shift and with no header drag in
\* progress makes (r, c) the active cell and the whole selection, and the
\* drag is a cell drag, whatever the selection was before.
C2_CellDownSelects ==
  [][ \A r \in Rows, c \in Cols :
        (handleMouseDown(r, c, FALSE) /\ ~isHeaderDragRef)
          => /\ selectedCell' = Cell(r, c)
             /\ selectionRange' = SingleCell(r, c)
             /\ isDraggingRef'
             /\ headerDragTypeRef' = "null"
             /\ ~isHeaderDragRef' ]_vars

\* a plain pointer-down has just made the last cell the whole selection;
\* the spent animation-frame handle shows that an earlier gesture came
\* before it
C2_Witness ==
  /\ ev = "cellDown"
  /\ isDraggingRef
  /\ ~isHeaderDragRef
  /\ selectedCell = Cell(rowCount - 1, columnCount - 1)
  /\ selectionRange = SingleCell(rowCount - 1, columnCount - 1)
  /\ rafRef = RafStale

\* C3: pointer-down on cell (r, c) with shift while a selection exists keeps
\* the start of the selection that existed before the event and sets the end
\* to (r, c).
C3_ShiftCellDownKeepsAnchor ==
  [][ \A r \in Rows, c \in Cols :
        (handleMouseDown(r, c, TRUE) /\ ~isHeaderDragRef
           /\ selectionRange # NoRange)
          => /\ selectionRange'.start = selectionRange.start
             /\ selectionRange'.end = Cell(r, c) ]_vars

\* C4: pointer-down on row header i selects row i from column 0 to the last
\* column, or with shift and an existing selection keeps the start and ends
\* at (i, last column), and the drag is a row-header drag; a column header
\* is symmetric.
C4_HeaderDownSelectsLine ==
  [][ /\ \A i \in Rows, s \in BOOLEAN :
           handleHeaderMouseDown(i, TRUE, s)
             => /\ selectionRange' =
                     IF s /\ selectionRange # NoRange
                     THEN Range(selectionRange.start,
                                Cell(i, columnCount - 1))
                     ELSE Range(Cell(i, 0), Cell(i, columnCount - 1))
                /\ isDraggingRef'
                /\ isHeaderDragRef'
                /\ headerDragTypeRef' = "row"
      /\ \A i \in Cols, s \in BOOLEAN :
           handleHeaderMouseDown(i, FALSE, s)
             => /\ selectionRange' =
                     IF s /\ selectionRange # NoRange
                     THEN Range(selectionRange.start, Cell(rowCount - 1, i))
                     ELSE Range(Cell(0, i), Cell(rowCount - 1, i))
                /\ isDraggingRef'
                /\ isHeaderDragRef'
                /\ headerDragTypeRef' = "column" ]_vars

\* a shift pointer-down on a column header has extended a selection whose
\* anchor is not in the first row
C4_Witness ==
  /\ ev = "columnHeaderDown"
  /\ headerDragTypeRef = "column"
  /\ selectionRange.start.row > 0
  /\ selectionRange.end = Cell(rowCount - 1, 0)

\* C5: in every state of a row-header drag (after the row-header
\* pointer-down and after each pointer-move or autoscroll step of the drag)
\* the normalized column span of the selection is [0, columnCount - 1].
C5_RowHeaderDragFullWidth ==
  (/\ ev \in { "rowHeaderDown", "mouseMove", "scrollStep" }
   /\ isHeaderDragRef
   /\ headerDragTypeRef = "row")
    => /\ Min(selectionRange.start.col, selectionRange.end.col) = 0
       /\ Max(selectionRange.start.col, selectionRange.end.col)
            = columnCount - 1

\* C6: the corner click selects the whole grid in one step and starts no
\* drag; no drag starts without a pointer-down, and without a drag a
\* pointer-move leaves the selection as it is.
C6_CornerSelectsAll ==
  [][ /\ ev' = "cornerClick"
           => /\ selectionRange' = FullRange
              /\ selectedCell' = Cell(0, 0)
              /\ ~isDraggingRef'
      /\ (~isDraggingRef
            /\ ev' \notin { "cellDown", "rowHeaderDown", "columnHeaderDown" })
           => ~isDraggingRef'
      /\ (ev' = "mouseMove" /\ ~isDraggingRef)
           => UNCHANGED << selectedCell, selectionRange >> ]_vars

\* a pointer-move has been handled with the whole grid selected and no drag
\* in progress
C6_Witness ==
  /\ ev = "mouseMove"
  /\ ~isDraggingRef
  /\ selectionRange = FullRange
  /\ selectedCell = Cell(0, 0)

\* C7: a pointer-move during a drag, with the pointer inside the viewport,
\* puts selectionRange.end on the cell under the pointer, except that a
\* row-header drag keeps the last column and a column-header drag the last
\* row, and makes the active cell equal to the new end.
C7_PointerMoveSetsEnd ==
  [][ \A x \in ClientXs, y \in ClientYs :
        (handleMouseMove(x, y) /\ isDraggingRef /\ gridRef
           /\ PointerInside(x, y))
          => \E under \in [row : Rows, col : Cols] :
               /\ IsCellAt(under, x - RectLeft + scrollLeft,
                           y - RectTop + scrollTop)
               /\ selectionRange'.end =
                    IF headerDragTypeRef = "row"
                    THEN Cell(under.row, columnCount - 1)
                    ELSE IF headerDragTypeRef = "column"
                    THEN Cell(rowCount - 1, under.col)
                    ELSE under
               /\ selectedCell' = selectionRange'.end ]_vars

\* a pointer-move inside the viewport has been handled during a cell drag
\* on scrolled content, and the end is away from the anchor
C7_Witness ==
  /\ ev = "mouseMove"
  /\ isDraggingRef
  /\ headerDragTypeRef = "null"
  /\ lastMousePositionRef = Pos(InsideX, InsideY)
  /\ scrollLeft > 0
  /\ selectionRange.end # selectionRange.start
  /\ selectedCell = selectionRange.end

\* C8: after a pointer-up the drag flag is false, the header drag type is
\* null, the header-drag flag is false and no pointer position is cached.
C8_PointerUpClearsDrag ==
  ev \in { "mouseUp", "backgroundMouseUp" }
    => /\ ~isDraggingRef
       /\ headerDragTypeRef = "null"
       /\ ~isHeaderDragRef
       /\ lastMousePositionRef = NoPos

\* a pointer-up has ended a drag whose autoscroll step was still pending
C8_Witness ==
  /\ ev = "mouseUp"
  /\ rafRef = RafStale
  /\ selectionRange # NoRange
  /\ selectionRange.end # selectionRange.start
  /\ ~isDraggingRef

\* C9: a cell pointer-down during a header drag changes neither the active
\* cell, the selection, the drag flags nor the scroll position.
C9_CellDownIgnoredInHeaderDrag ==
  [][ (ev' = "cellDown" /\ isHeaderDragRef)
        => UNCHANGED << selectedCell, selectionRange, isDraggingRef,
                        headerDragTypeRef, isHeaderDragRef, scrollLeft,
                        scrollTop >> ]_vars

\* a cell pointer-down has been handled while a header drag is in progress
C9_Witness ==
  /\ ev = "cellDown"
  /\ isHeaderDragRef
  /\ headerDragTypeRef = "row"
  /\ selectionRange # NoRange

\* C10: clearSelection, called directly or by the mouse-up on the
\* background, leaves the active cell and the selection unchanged when a
\* drag flag is set, and sets both to null otherwise.
C10_ClearSuppressedInDrag ==
  [][ ev' \in { "clearSelection", "backgroundMouseUp" }
        => IF isDraggingRef \/ isHeaderDragRef
           THEN UNCHANGED << selectedCell, selectionRange >>
           ELSE selectedCell' = NoCell /\ selectionRange' = NoRange ]_vars

\* a mouse-up on the background has ended a drag and the selection made by
\* the drag is still there
C10_Witness ==
  /\ ev = "backgroundMouseUp"
  /\ rafRef = RafStale
  /\ selectionRange # NoRange
  /\ selectionRange.end # selectionRange.start

\* C11: with no drag in progress clearSelection leaves the active cell and
\* the selection null; the call that empties a selection invokes exactly
\* the observers whose value was not null, and a call that directly
\* follows another clearSelection invokes no observer.
C11_ClearIdempotent ==
  [][ (ev' = "clearSelection" /\ ~isDraggingRef /\ ~isHeaderDragRef)
        => /\ selectedCell' = NoCell
           /\ selectionRange' = NoRange
           /\ notified' =
                { o \in observers :
                    \/ o = "onActivePositionChange" /\ selectedCell # NoCell
                    \/ o = "onSelectionChange" /\ selectionRange # NoRange }
           /\ ev = "clearSelection" => notified' = {} ]_vars

\* clearSelection has been called on a selection that an earlier call or
\* the background mouse-up had emptied, after gestures that scrolled the
\* content, and has invoked no observer
C11_Witness ==
  /\ ev = "clearSelection"
  /\ observers = Observers
  /\ notified = {}
  /\ ~isDraggingRef
  /\ selectedCell = NoCell
  /\ selectionRange = NoRange
  /\ notifiedRange = NoRange
  /\ scrollLeft > 0

ArrowKeys == { "ArrowUp", "ArrowDown", "ArrowLeft", "ArrowRight" }

\* the cell a navigation key leads to from `cell': the neighbour in the
\* direction of an arrow, the first or last column of the row for Home and
\* End, the first or last cell of the grid with ctrl; clamped to the grid
NavigationTarget(cell, key, ctrlKey) ==
  CASE key = "ArrowUp" -> Cell(Max(0, cell.row - 1), cell.col)
    [] key = "ArrowDown" -> Cell(Min(rowCount - 1, cell.row + 1), cell.col)
    [] key = "ArrowLeft" -> Cell(cell.row, Max(0, cell.col - 1))
    [] key = "ArrowRight" ->
         Cell(cell.row, Min(columnCount - 1, cell.col + 1))
    [] key = "Home" -> Cell(IF ctrlKey THEN 0 ELSE cell.row, 0)
    [] key = "End" ->
         Cell(IF ctrlKey THEN rowCount - 1 ELSE cell.row, columnCount - 1)

\* the key press has handed requestAnimationFrame a callback that commits
\* the target cell
KeyCommitScheduled(target, shiftKey) ==
  /\ Len(rafQueue') = Len(rafQueue) + 1
  /\ LET f == rafQueue'[Len(rafQueue')]
     IN  /\ f.kind = "key"
         /\ f.row = target.row
         /\ f.col = target.col
         /\ f.shift = shiftKey

\* C12: an arrow key without shift, pressed on active cell (r, c), makes
\* the clamped neighbour the active cell and the whole selection, either at
\* once or by the callback it schedules, which commits exactly that cell;
\* with no active cell the key changes nothing.
C12_ArrowMovesAndCollapses ==
  [][ /\ \A key \in ArrowKeys, c \in BOOLEAN :
           handleKeyDown(key, c, FALSE)
             => IF selectedCell = NoCell
                THEN UNCHANGED << selectedCell, selectionRange, rafQueue,
                                  scrollLeft, scrollTop >>
                ELSE LET t == NavigationTarget(selectedCell, key, c)
                     IN  \/ KeyCommitScheduled(t, FALSE)
                         \/ /\ rafQueue' = rafQueue
                            /\ selectedCell' = t
                            /\ selectionRange' = SingleCell(t.row, t.col)
      /\ (ev' = "keyStep" /\ ~Head(rafQueue).shift)
           => /\ selectedCell' =
                   Cell(Head(rafQueue).row, Head(rafQueue).col)
              /\ selectionRange' =
                   SingleCell(Head(rafQueue).row, Head(rafQueue).col) ]_vars

\* C13: a navigation key with shift, pressed while a selection exists,
\* keeps selectionRange.start, moves selectionRange.end to the target cell
\* and makes the target the active cell, either at once or by the callback
\* it schedules.
C13_ShiftKeyExtends ==
  [][ /\ \A key \in NavigationKeys, c \in BOOLEAN :
           (handleKeyDown(key, c, TRUE) /\ selectedCell # NoCell
              /\ selectionRange # NoRange)
             => LET t == NavigationTarget(selectedCell, key, c)
                IN  \/ /\ KeyCommitScheduled(t, TRUE)
                       /\ rafQueue'[Len(rafQueue')].start =
                            selectionRange.start
                    \/ /\ rafQueue' = rafQueue
                       /\ selectionRange'.start = selectionRange.start
                       /\ selectionRange'.end = t
                       /\ selectedCell' = t
      /\ (ev' = "keyStep" /\ Head(rafQueue).shift
            /\ Head(rafQueue).start # NoCell)
           => /\ selectionRange'.start = Head(rafQueue).start
              /\ selectionRange'.end =
                   Cell(Head(rafQueue).row, Head(rafQueue).col)
              /\ selectedCell' = selectionRange'.end ]_vars

\* C14: Home pressed on active cell (r, c) leads to (r, 0) and with ctrl to
\* (0, 0); End leads to (r, last column) and with ctrl to (last row, last
\* column): the target is the active cell already or is committed by the
\* callback the key press schedules.
C14_HomeEndTargets ==
  [][ /\ \A key \in { "Home", "End" }, c \in BOOLEAN, s \in BOOLEAN :
           (handleKeyDown(key, c, s) /\ selectedCell # NoCell)
             => LET t == IF key = "Home"
                         THEN Cell(IF c THEN 0 ELSE selectedCell.row, 0)
                         ELSE Cell(IF c THEN rowCount - 1
                                   ELSE selectedCell.row, columnCount - 1)
                IN  \/ KeyCommitScheduled(t, s)
                    \/ /\ rafQueue' = rafQueue
                       /\ selectedCell = t
                       /\ selectedCell' = t
      /\ ev' = "keyStep"
           => selectedCell' = Cell(Head(rafQueue).row, Head(rafQueue).col)
    ]_vars

\* ctrl+End has been pressed on the first cell: the pending callback
\* carries the last cell of the grid
C14_Witness ==
  /\ ev = "keyDown"
  /\ selectedCell = Cell(0, 0)
  /\ rafQueue # << >>
  /\ rafQueue[Len(rafQueue)].kind = "key"
  /\ rafQueue[Len(rafQueue)].row = rowCount - 1
  /\ rafQueue[Len(rafQueue)].col = columnCount - 1

InGrid(cell) == cell.row \in Rows /\ cell.col \in Cols

\* C15: in every reachable state the active cell, when not null, and both
\* ends of the selection, when not null, are cells of the grid, wherever
\* the pointer has been moved and whatever the scroll offset is.
C15_IndexBounds ==
  /\ selectedCell = NoCell \/ InGrid(selectedCell)
  /\ \/ selectionRange = NoRange
     \/ InGrid(selectionRange.start) /\ InGrid(selectionRange.end)

\* the pointer is below the viewport of a scrolled grid, at a point whose
\* row index would lie past the last row, and the end of the selection is
\* in the last row
C15_Witness ==
  /\ ev \in { "mouseMove", "scrollStep" }
  /\ isDraggingRef
  /\ lastMousePositionRef.set
  /\ scrollTop > 0
  /\ (lastMousePositionRef.y + scrollTop) \div defaultRowHeight > rowCount - 1
  /\ selectionRange.end.row = rowCount - 1
  /\ selectedCell = selectionRange.end

\* C16: the offsets an autoscroll step computes lie in
\* [0, content size - viewport size] on each axis, and when the step calls
\* scrollToPosition the container takes exactly these offsets.
C16_AutoscrollOffsetsInRange ==
  [][ (ev' = "scrollStep" /\ isDraggingRef /\ gridRef
         /\ lastMousePositionRef.set)
        => LET newScrollLeft == StepScrollLeft(lastMousePositionRef.x)
               newScrollTop == StepScrollTop(lastMousePositionRef.y)
           IN  /\ newScrollLeft \in 0 .. (contentWidth - ViewportWidth)
               /\ newScrollTop \in 0 .. (contentHeight - ViewportHeight)
               /\ (newScrollLeft # scrollLeft \/ newScrollTop # scrollTop)
                    => /\ scrollLeft' = newScrollLeft
                       /\ scrollTop' = newScrollTop ]_vars

\* autoscroll steps of a cell drag that began in the first column, with the
\* pointer past the right edge and above the viewport, have driven
\* scrollLeft to its maximum and scrollTop to 0
C16_Witness ==
  /\ ev = "scrollStep"
  /\ isDraggingRef
  /\ headerDragTypeRef = "null"
  /\ selectionRange.start.col = 0
  /\ lastMousePositionRef.set
  /\ lastMousePositionRef.x > ViewportWidth
  /\ lastMousePositionRef.y < 0
  /\ scrollLeft = contentWidth - ViewportWidth
  /\ scrollTop = 0

\* a cell drag whose pointer is past the right edge of the viewport
Held ==
  /\ isDraggingRef
  /\ headerDragTypeRef = "null"
  /\ lastMousePositionRef.set
  /\ lastMousePositionRef.x > ViewportWidth

\* the last column of which a part is visible at scroll offset sl
LastVisibleColumn(sl) ==
  Min(columnCount - 1, (sl + ViewportWidth - 1) \div defaultColumnWidth)

\* C17: while the pointer of a cell drag is held past the right edge of a
\* viewport narrower than the content, selectionRange.end.col eventually
\* exceeds the last column visible at scroll offset 0 (no drag starts with
\* fewer columns visible), unless the user moves the pointer back or ends
\* the drag.
C17_AutoscrollProgress ==
  Held ~> (~Held \/ selectionRange.end.col > LastVisibleColumn(0))

\* reachable when the frame fires before the re-render commits: an
\* autoscroll step of a held drag has brought the end of the selection past
\* the last column visible at offset 0
HeldStepReachesNextColumn ==
  /\ ev = "scrollStep"
  /\ Held
  /\ selectionRange.end.col > LastVisibleColumn(0)

\* C18: an autoscroll step that was scheduled before a pointer-up and runs
\* after it calls neither scrollToPosition nor the selection setters, also
\* when a new drag has begun in between.
C18_NoStepAfterPointerUp ==
  [][ (ev' = "scrollStep" /\ Head(rafQueue).beforeUp)
        => UNCHANGED << scrollLeft, scrollTop, selectedCell,
                        selectionRange >> ]_vars

C19_NoAutoscrollOutsideDrag ==
  [][ (/\ ev' = "hookScrollStep"
       /\ Head(rafQueue).state.idle
       /\ ~isDraggingRef)
        => UNCHANGED << scrollLeft, scrollTop >> ]_vars
\* C21: with gridRef.current null, an autoscroll step commits no scroll
\* offset and no selection and schedules no further step; a pointer-down on
\* a cell sets the selection (its end is the cell, and without shift the
\* cell is the active cell and the whole selection) and requests no scroll;
\* a pointer-move changes nothing.
C21_MissingRenderer ==
  [][ ~gridRef =>
        /\ (ev' = "scrollStep"
              => /\ UNCHANGED << scrollLeft, scrollTop, selectedCell,
                                 selectionRange >>
                 /\ rafQueue' = Tail(rafQueue)
                 /\ rafRef' = RafNull)
        /\ \A r \in Rows, c \in Cols, s \in BOOLEAN :
             handleMouseDown(r, c, s)
               => /\ selectionRange'.end = Cell(r, c)
                  /\ ~s => /\ selectedCell' = Cell(r, c)
                            /\ selectionRange' = SingleCell(r, c)
                  /\ UNCHANGED << scrollLeft, scrollTop >>
        /\ (ev' = "mouseMove"
              => UNCHANGED << selectedCell, selectionRange, isDraggingRef,
                              headerDragTypeRef, isHeaderDragRef,
                              lastMousePositionRef, rafRef, rafQueue,
                              effectPending, scrollLeft, scrollTop >>) ]_vars

\* a step has fired in the middle of a drag, with the pointer position
\* cached and the renderer gone, and has ended the loop
C21_Witness ==
  /\ ev = "scrollStep"
  /\ ~gridRef
  /\ isDraggingRef
  /\ lastMousePositionRef.set
  /\ rafRef = RafNull
  /\ rafQueue = << >>
\* C22: every pointer-up that ends a drag while the renderer is available
\* calls recomputeGridSize(), whether or not an animation step was scheduled
\* during the drag.
C22_PointerUpRecomputes ==
  [][ (ev' = "mouseUp" /\ (isDraggingRef \/ isHeaderDragRef) /\ gridRef)
        => recomputed' ]_vars

\* a pointer-up has ended a drag and has called recomputeGridSize()
PointerUpRecomputed ==
  /\ ev = "mouseUp"
  /\ recomputed
\* the integers from a to b, whichever of the two is the larger
Between(a, b) == (a .. b) \cup (b .. a)

\* C23: isCellSelected(row, col) is true exactly when selectionRange is
\* non-null and row and col lie between the rows and between the columns of
\* its two corners, or selectionRange is null and the active cell is
\* (row, col); swapping start and end does not change the result.  Queried
\* for every cell of the grid and one index beyond each side.
C23_IsCellSelected ==
  \A row \in -1 .. rowCount, col \in -1 .. columnCount :
    /\ isCellSelected(row, col)
         <=> \/ /\ selectionRange # NoRange
                /\ row \in Between(selectionRange.start.row,
                                   selectionRange.end.row)
                /\ col \in Between(selectionRange.start.col,
                                   selectionRange.end.col)
             \/ /\ selectionRange = NoRange
                /\ selectedCell # NoCell
                /\ selectedCell = Cell(row, col)
    /\ isCellSelected(row, col)
         <=> CellSelected(selectedCell,
                          Range(selectionRange.end, selectionRange.start),
                          row, col)

\* a selection dragged up and to the left: its end lies before its start in
\* both axes, and a cell that is neither of the two is selected
C23_Witness ==
  /\ selectionRange = Range(Cell(rowCount - 1, columnCount - 1), Cell(0, 0))
  /\ isCellSelected(0, columnCount - 1)
  /\ ~isCellSelected(rowCount, 0)
\* an autoscroll step is waiting for an animation frame
ScrollStepPending(q) == \E i \in 1 .. Len(q) : q[i].kind = "scroll"

\* C24: once the hook is torn down no autoscroll step remains scheduled, and
\* from then on the active cell, the selection, the drag flags and the scroll
\* position do not change, whatever events reach the window.
C24_TeardownReleases ==
  [][ ~mounted' =>
        /\ ~ScrollStepPending(rafQueue')
        /\ ~mounted => UNCHANGED << selectedCell, selectionRange,
                                    isDraggingRef, headerDragTypeRef,
                                    isHeaderDragRef, scrollLeft,
                                    scrollTop >> ]_vars

\* an autoscroll step that was left pending by the unmount has fired and
\* has returned
StepFiredAfterTeardown ==
  /\ ~mounted
  /\ ev = "scrollStep"
\* C25: at most one autoscroll step is scheduled at any moment.
C25_SingleStepPending ==
  Cardinality({ i \in 1 .. Len(rafQueue) : rafQueue[i].kind = "scroll" }) <= 1
\* the pointer position cached by the last pointer-move of the drag lies
\* inside the viewport (both speeds of a step are zero)
PointerBackInside ==
  /\ isDraggingRef
  /\ gridRef
  /\ lastMousePositionRef.set
  /\ ~isOutsideGrid(lastMousePositionRef.x, lastMousePositionRef.y)

\* C26 as stated: a step that fires during a drag while the pointer is back
\* inside the viewport requests no further step.
C26_IdleWhenPointerInside ==
  [][ (ev' = "scrollStep" /\ PointerBackInside)
        => Len(rafQueue') < Len(rafQueue) ]_vars

\* C26 as amended: a step that fires during a drag with the renderer and the
\* cached pointer position available requests exactly one further step and
\* stores its handle, also when the pointer is back inside the viewport; it
\* requests none and clears the handle only when the drag has ended or a
\* reference is lost.
C26_StepReschedulesDuringDrag ==
  [][ ev' = "scrollStep" =>
        IF ScrollStops
        THEN /\ rafQueue' = Tail(rafQueue)
             /\ rafRef' = RafNull
        ELSE /\ Len(rafQueue') = Len(rafQueue)
             /\ SubSeq(rafQueue', 1, Len(rafQueue') - 1) = Tail(rafQueue)
             /\ rafQueue'[Len(rafQueue')].kind = "scroll"
             /\ rafQueue'[Len(rafQueue')].id = rafRef'
             /\ rafRef' \notin QueueIds(Tail(rafQueue)) ]_vars

\* a step has fired with the pointer back inside the viewport and has left
\* the next step pending
C26_Witness ==
  /\ ev = "scrollStep"
  /\ PointerBackInside
  /\ rafQueue # << >>
  /\ rafQueue[Len(rafQueue)].kind = "scroll"
  /\ rafQueue[Len(rafQueue)].id = rafRef
\* content coordinate p pulled into the content of the given extent
IntoContent(p, extent) == Max(0, Min(extent - 1, p))

\* C27: the selection end committed by an autoscroll step that has scrolled
\* is the cell that holds the cached pointer offset taken at the scroll
\* offsets the step has just committed (pulled into the grid; a header drag
\* pins the other axis to the last column or row), and it is the active
\* cell.
C27_StepUsesNewOffsets ==
  [][ (/\ ev' = "scrollStep"
       /\ << scrollLeft', scrollTop' >> # << scrollLeft, scrollTop >>
       /\ selectionRange # NoRange)
        => LET px == IntoContent(lastMousePositionRef.x + scrollLeft',
                                 contentWidth)
               py == IntoContent(lastMousePositionRef.y + scrollTop',
                                 contentHeight)
               end == selectionRange'.end
           IN  /\ selectedCell' = end
               /\ selectionRange'.start = selectionRange.start
               /\ \/ headerDragTypeRef = "row" /\ end.col = columnCount - 1
                  \/ /\ headerDragTypeRef # "row"
                     /\ end.col * defaultColumnWidth <= px
                     /\ px < (end.col + 1) * defaultColumnWidth
               /\ \/ headerDragTypeRef = "column" /\ end.row = rowCount - 1
                  \/ /\ headerDragTypeRef # "column"
                     /\ end.row * defaultRowHeight <= py
                     /\ py < (end.row + 1) * defaultRowHeight ]_vars

\* a step has scrolled the narrow container so far that the cached pointer
\* offset, which lay over the first column before the step, lies over the
\* second one, and the step has committed the second column
C27_Witness ==
  /\ ev = "scrollStep"
  /\ isDraggingRef
  /\ lastMousePositionRef.set
  /\ lastMousePositionRef.x < defaultColumnWidth
  /\ scrollLeft > 0
  /\ scrollLeft < defaultColumnWidth
  /\ lastMousePositionRef.x + scrollLeft >= defaultColumnWidth
  /\ selectionRange.end.col = 1
  /\ selectedCell = selectionRange.end
\* the host of the scroll hook: a hook step that has scrolled during a drag
\* requests the selection commit for the cell at the new offsets
OnScrollUsesNewOffsets ==
  [][ (/\ ev' = "hookScrollStep"
       /\ << scrollLeft', scrollTop' >> # << scrollLeft, scrollTop >>
       /\ isDraggingRef
       /\ lastMousePositionRef.set)
        => \E i \in DOMAIN rafQueue' :
             LET f == rafQueue'[i]
                 px == IntoContent(lastMousePositionRef.x + scrollLeft',
                                   contentWidth)
                 py == IntoContent(lastMousePositionRef.y + scrollTop',
                                   contentHeight)
             IN  /\ f.kind = "onScroll"
                 /\ i >= Len(rafQueue)
                 /\ f.col * defaultColumnWidth <= px
                 /\ px < (f.col + 1) * defaultColumnWidth
                 /\ f.row * defaultRowHeight <= py
                 /\ py < (f.row + 1) * defaultRowHeight ]_vars
\* C28: a pointer-move of a drag whose position starts the autoscroll (the
\* pointer is outside the viewport) leaves the selection range and the
\* active cell as they were.
C28_OutsideMoveKeepsSelection ==
  [][ (/\ ev' = "mouseMove"
       /\ isDraggingRef
       /\ gridRef
       /\ lastMousePositionRef'.set
       /\ isOutsideGrid(lastMousePositionRef'.x, lastMousePositionRef'.y))
        => UNCHANGED << selectedCell, selectionRange >> ]_vars

\* a pointer-move outside the viewport has requested a step and has itself
\* committed a new selection end
OutsideMoveSelected ==
  /\ ev = "mouseMove"
  /\ isDraggingRef
  /\ lastMousePositionRef.set
  /\ isOutsideGrid(lastMousePositionRef.x, lastMousePositionRef.y)
  /\ rafQueue # << >>
  /\ selectionRange # NoRange
  /\ selectionRange.end # selectionRange.start
  /\ effectPending
\* C29: at scroll offset (0,0) a pointer-move of a cell drag at pixel
\* (col * W + ex, row * H + ey) of the content, for a cell (row, col) of
\* the grid, 0 <= ex < W and 0 <= ey < H, commits the cell (row, col) as
\* the selection end and as the active cell.
C29_PixelRoundTrip ==
  [][ (/\ ev' = "mouseMove"
       /\ isDraggingRef
       /\ gridRef
       /\ headerDragTypeRef = "null"
       /\ selectionRange # NoRange
       /\ scrollLeft = 0
       /\ scrollTop = 0)
        => \A r \in Rows, c \in Cols :
             (/\ lastMousePositionRef'.set
              /\ lastMousePositionRef'.x - c * defaultColumnWidth
                    \in 0 .. defaultColumnWidth - 1
              /\ lastMousePositionRef'.y - r * defaultRowHeight
                    \in 0 .. defaultRowHeight - 1)
               => /\ selectionRange'.end = Cell(r, c)
                  /\ selectedCell' = Cell(r, c) ]_vars

\* a drag from the first cell has moved to the first pixel of the second
\* column, in the last pixel row of the first row, with the container at
\* offset (0,0)
C29_Witness ==
  /\ ev = "mouseMove"
  /\ isDraggingRef
  /\ headerDragTypeRef = "null"
  /\ scrollLeft = 0
  /\ scrollTop = 0
  /\ lastMousePositionRef = Pos(defaultColumnWidth, defaultRowHeight - 1)
  /\ selectionRange = Range(Cell(0, 0), Cell(0, 1))
  /\ selectedCell = Cell(0, 1)
\* the pointer offset is within the threshold of, or beyond, an edge of the
\* viewport
NearViewportEdge(x, y) ==
  \/ x <= SCROLL_ZONE_THRESHOLD
  \/ x >= ViewportWidth - SCROLL_ZONE_THRESHOLD
  \/ y <= SCROLL_ZONE_THRESHOLD
  \/ y >= ViewportHeight - SCROLL_ZONE_THRESHOLD

\* C30: a pointer-move handled by the scroll hook during a drag requests
\* a scroll direction exactly when the pointer offset is within the
\* threshold of, or beyond, some edge of the viewport; for an offset farther
\* than the threshold from all four edges it requests none.
C30_EdgeZonesInward ==
  [][ (/\ gridRef
       /\ \/ ev' = "hostMouseMove" /\ isDraggingRef /\ isDragging
          \/ ev' = "hookMouseMove" /\ boundIsDragging)
        => /\ scrollLastMousePositionRef'.set
           /\ (scrollStateUpdate'.direction # "null")
                <=> NearViewportEdge(scrollLastMousePositionRef'.x,
                                     scrollLastMousePositionRef'.y) ]_vars

\* a pointer-move at an offset farther than the threshold from all four
\* edges has requested a scroll to the left
InteriorPointerScrolls ==
  /\ ev \in { "hostMouseMove", "hookMouseMove" }
  /\ scrollLastMousePositionRef.set
  /\ ~NearViewportEdge(scrollLastMousePositionRef.x,
                       scrollLastMousePositionRef.y)
  /\ scrollStateUpdate.direction = "left"

\* a pointer-move 40 pixels above the lower edge has requested no scroll
LowerZoneIdle ==
  /\ ev \in { "hostMouseMove", "hookMouseMove" }
  /\ scrollLastMousePositionRef.set
  /\ scrollLastMousePositionRef.y > ViewportHeight - SCROLL_ZONE_THRESHOLD
  /\ scrollLastMousePositionRef.y < ViewportHeight
  /\ scrollStateUpdate.direction = "null"
\* the pointer offset is in the right edge zone and in the lower edge zone
InLowerRightCorner(x, y) ==
  /\ x >= ViewportWidth - SCROLL_ZONE_THRESHOLD
  /\ y >= ViewportHeight - SCROLL_ZONE_THRESHOLD

\* C31: with every pointer-move of the drag in the lower right corner zone,
\* a step of the scroll hook that scrolls a container with room left on both
\* axes moves scrollLeft and scrollTop.
C31_DiagonalAutoscroll ==
  [][ (/\ ev' = "hookScrollStep"
       /\ scrollLastMousePositionRef.set
       /\ InLowerRightCorner(scrollLastMousePositionRef.x,
                             scrollLastMousePositionRef.y)
       /\ scrollLeft < contentWidth - ViewportWidth
       /\ scrollTop < contentHeight - ViewportHeight
       /\ << scrollLeft', scrollTop' >> # << scrollLeft, scrollTop >>)
        => /\ scrollLeft' > scrollLeft
           /\ scrollTop' > scrollTop ]_vars

\* a step has scrolled down with the pointer in the lower right corner zone
\* and has left scrollLeft at 0, with room to the right
CornerStepOneAxis ==
  /\ ev = "hookScrollStep"
  /\ scrollLastMousePositionRef.set
  /\ InLowerRightCorner(scrollLastMousePositionRef.x,
                        scrollLastMousePositionRef.y)
  /\ scrollLeft = 0
  /\ scrollTop > 0
  /\ contentWidth - ViewportWidth > 0
\* C32: the scroll state requested by a pointer-move that the scroll hook
\* handles during a drag has a speed from 0 to MAX_SCROLL_SPEED, and the
\* speed is 0 exactly when the direction is null.
C32_SpeedRange ==
  [][ (/\ gridRef
       /\ \/ ev' = "hostMouseMove" /\ isDraggingRef /\ isDragging
          \/ ev' = "hookMouseMove" /\ boundIsDragging)
        => /\ scrollStateUpdate'.speed >= 0
           /\ scrollStateUpdate'.speed <= MAX_SCROLL_SPEED
           /\ (scrollStateUpdate'.speed = 0)
                <=> (scrollStateUpdate'.direction = "null") ]_vars

\* a pointer-move far above the container has requested the largest speed
C32_Witness ==
  /\ ev \in { "hostMouseMove", "hookMouseMove" }
  /\ scrollLastMousePositionRef.set
  /\ scrollLastMousePositionRef.y < -200
  /\ scrollStateUpdate.direction = "up"
  /\ scrollStateUpdate.speed = MAX_SCROLL_SPEED

\* a pointer-move has requested no scroll, with speed 0
NullDirectionRequested ==
  /\ ev \in { "hostMouseMove", "hookMouseMove" }
  /\ scrollLastMousePositionRef.set
  /\ scrollStateUpdate.direction = "null"
  /\ scrollStateUpdate.speed = 0
\* v into the range lo .. hi
IntoRange(v, lo, hi) == Max(lo, Min(hi, v))

\* C33: an autoscroll step that does not stop leaves the container at the
\* offset it had when the step ran plus the speed for the cached pointer
\* offset, limited to the scroll range, whatever has set the offset before
\* the step.
C33_StepRereadsOffset ==
  [][ (/\ ev' = "scrollStep"
       /\ isDraggingRef
       /\ gridRef
       /\ lastMousePositionRef.set)
        => /\ scrollLeft' =
                IntoRange(scrollLeft
                            + calculateScrollSpeed(lastMousePositionRef.x,
                                                   ViewportWidth),
                          0, contentWidth - ViewportWidth)
           /\ scrollTop' =
                IntoRange(scrollTop
                            + calculateScrollSpeed(lastMousePositionRef.y,
                                                   ViewportHeight),
                          0, contentHeight - ViewportHeight) ]_vars

\* a step has run with the pointer to the right of the viewport and has
\* left the container at the offset set by the user plus the step's speed
C33_Witness ==
  /\ ev = "scrollStep"
  /\ isDraggingRef
  /\ lastMousePositionRef.set
  /\ lastMousePositionRef.x > ViewportWidth
  /\ calculateScrollSpeed(lastMousePositionRef.x, ViewportWidth) > 0
  /\ scrollLeft =
       WheelLeft + calculateScrollSpeed(lastMousePositionRef.x, ViewportWidth)
  /\ scrollLeft < contentWidth - ViewportWidth
\* C34: the header-drag flag is set exactly when the header drag type is
\* row or column, a header drag is a drag, the type is one of null, row and
\* column, and after a pointer-up the three are false, null and false.
C34_DragFlagsLegal ==
  /\ headerDragTypeRef \in { "null", "row", "column" }
  /\ isHeaderDragRef <=> (headerDragTypeRef # "null")
  /\ isHeaderDragRef => isDraggingRef
  /\ ev \in { "mouseUp", "backgroundMouseUp" }
       => /\ ~isDraggingRef
          /\ ~isHeaderDragRef
          /\ headerDragTypeRef = "null"

\* a column-header drag is being tracked: a pointer-move has been handled
\* with the three flags set
C34_Witness ==
  /\ ev = "mouseMove"
  /\ isDraggingRef
  /\ isHeaderDragRef
  /\ headerDragTypeRef = "column"
  /\ lastMousePositionRef.set

\* a pointer-up has reset the flags after a drag had requested a step
PointerUpAfterDrag ==
  /\ ev = "mouseUp"
  /\ ~isDraggingRef
  /\ ~isHeaderDragRef
  /\ headerDragTypeRef = "null"
  /\ rafRef = RafStale
\* C35: the active cell is null exactly when the selection range is null.
C35_NullTogether ==
  (selectedCell = NoCell) <=> (selectionRange = NoRange)

\* the selection has been cleared while the callback of a key press is
\* pending
C35_Witness ==
  /\ ev = "clearSelection"
  /\ selectedCell = NoCell
  /\ selectionRange = NoRange
  /\ rafQueue # << >>
  /\ rafQueue[1].kind = "key"
\* C36: whenever the selection range is not null, the active cell lies in
\* the rectangle spanned by the two corners of the range.
C36_ActiveCellInRange ==
  selectionRange # NoRange
    => /\ selectedCell # NoCell
       /\ selectedCell.row
            \in Between(selectionRange.start.row, selectionRange.end.row)
       /\ selectedCell.col
            \in Between(selectionRange.start.col, selectionRange.end.col)

\* a shift+pointer-down on a header has left the active cell outside the
\* range
ActiveCellOutsideRange ==
  /\ ev \in { "rowHeaderDown", "columnHeaderDown" }
  /\ selectionRange # NoRange
  /\ selectedCell # NoCell
  /\ ~isCellSelected(selectedCell.row, selectedCell.col)
\* C37: when every earlier re-render has committed and an autoscroll step
\* is pending in a held drag with scroll room to the right, the steps go on
\* (each commits a selection change, whose re-render cleans up and re-binds
\* the window listeners) until the room is used up, unless the user moves
\* the pointer back or ends the drag.
C37_StepsSurviveOwnCommit ==
  (/\ Held
   /\ ~effectPending
   /\ ScrollStepPending(rafQueue)
   /\ scrollLeft < contentWidth - ViewportWidth)
    ~> (~Held \/ scrollLeft = contentWidth - ViewportWidth)

\* a step is pending in a held drag and no re-render is outstanding
HeldStepPendingSettled ==
  /\ Held
  /\ ~effectPending
  /\ ScrollStepPending(rafQueue)
  /\ scrollLeft < contentWidth - ViewportWidth

\* the re-render after a step of a held drag has left no step pending, with
\* scroll room remaining
StepCancelledByCommit ==
  /\ ev = "flushEffects"
  /\ Held
  /\ rafQueue = << >>
  /\ rafRef = RafStale
  /\ scrollLeft > 0
  /\ scrollLeft < contentWidth - ViewportWidth
\* number of callbacks of key presses that wait for an animation frame
KeyCommitsPending(q) ==
  Cardinality({ i \in 1 .. Len(q) : q[i].kind = "key" })

\* C38: the callback that a key press has scheduled for its target stays
\* scheduled until it runs: no step other than the run of such a callback
\* lowers the number of pending ones, and a run lowers it by one.
C38_KeyCommitNotLost ==
  [][ KeyCommitsPending(rafQueue') >=
        KeyCommitsPending(rafQueue) - (IF ev' = "keyStep" THEN 1 ELSE 0) ]_vars

\* a pointer-up has left no callback pending after a key press had
\* scheduled one, and the active cell is still the one the key was pressed on
KeyCommitCancelled ==
  /\ ev = "mouseUp"
  /\ rafQueue = << >>
  /\ rafRef = RafStale
  /\ selectedCell # NoCell
  /\ recomputed
\* C39: an ArrowDown press without shift that arrives while the callback of
\* an earlier press is still pending counts on top of it: the callback
\* pending last after the press commits the row below the target of the
\* one pending last before it, or the last row of the grid.
C39_PressesAccumulate ==
  [][ (/\ handleKeyDown("ArrowDown", FALSE, FALSE)
       /\ selectedCell # NoCell
       /\ rafQueue # << >>
       /\ rafQueue[Len(rafQueue)].kind = "key")
        => /\ rafQueue' # << >>
           /\ rafQueue'[Len(rafQueue')].kind = "key"
           /\ rafQueue'[Len(rafQueue')].row =
                Min(rowCount - 1, rafQueue[Len(rafQueue)].row + 1) ]_vars

\* two presses have scheduled two callbacks for the same row, which is not
\* the last row of the grid
SameTargetTwice ==
  /\ ev = "keyDown"
  /\ Len(rafQueue) = 2
  /\ rafQueue[1].kind = "key"
  /\ rafQueue[2].kind = "key"
  /\ rafQueue[1].row = rafQueue[2].row
  /\ rafQueue[2].row < rowCount - 1
  /\ selectedCell.row = rafQueue[2].row - 1
\* C40: the offsets that the scroll-into-view of a pointer-down on a cell, a
\* row header or a column header asks the renderer for lie between 0 and
\* content size minus viewport size on both axes.
C40_RequestedOffsetsInRange ==
  [][ gridRef =>
        /\ (ev' = "cellDown" /\ ~isHeaderDragRef) =>
             /\ MouseDownScrollTop(selectionRange'.end.row)
                  \in 0 .. (contentHeight - ViewportHeight)
             /\ MouseDownScrollLeft(selectionRange'.end.col)
                  \in 0 .. (contentWidth - ViewportWidth)
        /\ ev' = "rowHeaderDown" =>
             HeaderRowScrollTop(selectionRange'.end.row)
               \in 0 .. (contentHeight - ViewportHeight)
        /\ ev' = "columnHeaderDown" =>
             HeaderColumnScrollLeft(selectionRange'.end.col)
               \in 0 .. (contentWidth - ViewportWidth) ]_vars

\* a pointer-down on the header of the first row would ask for an offset
\* above the content
NegativeOffsetAsked ==
  /\ ~isDraggingRef
  /\ gridRef
  /\ mounted
  /\ HeaderRowScrollTop(0) < 0
====
